---- MODULE Spec2Model ----
(***************************************************************************)
(* Bytecode codec of the mod-language compiler (src/src/lib/bytecode.rs).  *)
(*                                                                         *)
(* Representation of the program's data:                                   *)
(*   - a byte is an integer in 0..255, a buffer a sequence of bytes;       *)
(*   - u8 / i8 / u16 / i16 / i32 are integers;                             *)
(*   - u32 / u64 / i64 / f32 / f64 are sequences of 16-bit limbs, least    *)
(*     significant limb first (2 limbs for 32 bits, 4 for 64 bits); for    *)
(*     i64, f32 and f64 the limbs hold the bit pattern;                    *)
(*   - a String is the sequence of its UTF-8 bytes;                        *)
(*   - a struct is a record, an enum a record with the variant name in k;  *)
(*   - a Result is a record [err, val, rest]: err = "Ok" and the cursor    *)
(*     left at rest, or err the DecodeError ("EOF", "InvalidString",       *)
(*     "UnexpectedValue"), or the way the process died ("Panic", "Abort"). *)
(***************************************************************************)
EXTENDS Integers, Sequences, FiniteSets, TLC

VARIABLES
  value,    \* the in-memory value handed to encode
  buff,     \* the byte sink filled by encode / the slice the cursor reads
  result,   \* outcome of the last decode
  entity,   \* the type whose decoder ran last
  pc,       \* position of the driver: "build", "encoded", "decoded"
  oom       \* environment: the allocator refuses an oversized reservation

vars == <<value, buff, result, entity, pc, oom>>

----------------------------------------------------------------------------
(* Results *)

Ok(v, rest) == [err |-> "Ok", val |-> v, rest |-> rest]

Err(e, rest) == [err |-> e, val |-> <<>>, rest |-> rest]

DecodeError == {"EOF", "InvalidString", "UnexpectedValue"}

----------------------------------------------------------------------------
(* Machine integers *)

LimbBase == 65536

\* usize -> u64 (self.len() as u64), for a length below 2^31
U64Of(n) == <<n % LimbBase, n \div LimbBase, 0, 0>>

\* a 64-bit count that fits the model's integers
IsSmall(x) == x[3] = 0 /\ x[4] = 0 /\ x[2] < 32768

AsNat(x) == x[1] + LimbBase * x[2]

\* n < x for a natural n and a 64-bit x
NatLess(n, x) == IF IsSmall(x) THEN n < AsNat(x) ELSE TRUE

\* x * size > isize::MAX, for a 64-bit x and a small positive size
MulOverflows(x, size) ==
  LET c1 == x[1] * size
      c2 == x[2] * size + (c1 \div LimbBase)
      c3 == x[3] * size + (c2 \div LimbBase)
      c4 == x[4] * size + (c3 \div LimbBase)
  IN  (c4 \div LimbBase) > 0 \/ (c4 % LimbBase) >= 32768

to_le_bytes_BE(x) ==
  [i \in 1..(2 * Len(x)) |->
     LET l == x[Len(x) + 1 - ((i + 1) \div 2)]
     IN  IF i % 2 = 1 THEN l \div 256 ELSE l % 256]

to_le_bytes(x) ==
  [i \in 1..(2 * Len(x)) |->
     LET l == x[(i + 1) \div 2]
     IN  IF i % 2 = 1 THEN l % 256 ELSE l \div 256]

from_le_bytes(b) ==
  [i \in 1..(Len(b) \div 2) |-> b[2 * i - 1] + 256 * b[2 * i]]

\* two's complement patterns of the signed integers
i16_limbs(x) == <<(x + LimbBase) % LimbBase>>

limbs_i16(l) == IF l[1] >= 32768 THEN l[1] - LimbBase ELSE l[1]

i32_limbs_magnitude(x) ==
  IF x < 0 THEN <<(0 - x) % LimbBase, (((0 - x) \div LimbBase) % LimbBase) + 32768>>
  ELSE <<x % LimbBase, (x \div LimbBase) % LimbBase>>

i32_limbs(x) == <<x % LimbBase, (x \div LimbBase) % LimbBase>>

limbs_i32(l) ==
  IF l[2] >= 32768 THEN (l[2] - LimbBase) * LimbBase + l[1]
  ELSE l[2] * LimbBase + l[1]

----------------------------------------------------------------------------
(* std::str::from_utf8: well-formed UTF-8 byte sequences *)

IsCont(b) == b >= 128 /\ b <= 191

RECURSIVE IsUtf8(_)
IsUtf8(s) ==
  IF s = <<>> THEN TRUE
  ELSE LET b == s[1]
           n == Len(s)
       IN  IF b <= 127 THEN IsUtf8(Tail(s))
           ELSE IF b >= 194 /\ b <= 223
             THEN n >= 2 /\ IsCont(s[2]) /\ IsUtf8(SubSeq(s, 3, n))
           ELSE IF b >= 224 /\ b <= 239
             THEN /\ n >= 3
                  /\ IsCont(s[2]) /\ IsCont(s[3])
                  /\ (b = 224 => s[2] >= 160)
                  /\ (b = 237 => s[2] <= 159)
                  /\ IsUtf8(SubSeq(s, 4, n))
           ELSE IF b >= 240 /\ b <= 244
             THEN /\ n >= 4
                  /\ IsCont(s[2]) /\ IsCont(s[3]) /\ IsCont(s[4])
                  /\ (b = 240 => s[2] >= 144)
                  /\ (b = 244 => s[2] <= 143)
                  /\ IsUtf8(SubSeq(s, 5, n))
           ELSE FALSE

----------------------------------------------------------------------------
(* Tagged enums: the discriminant of a variant is its position, from 0 *)

TypeDataKind == <<"Intrinsic", "Pointer", "Struct", "Function">>

IntrinsicType ==
  <<"Void", "Bool", "U8", "U16", "U32", "U64",
    "S8", "S16", "S32", "S64", "F32", "F64">>

AliasDataKind == <<"Namespace", "Global", "Function">>

InstructionKind ==
  <<"NoOp", "ImmediateValue", "CreateLocal",
    "LocalAddress", "GlobalAddress", "FunctionAddress",
    "GetElement", "Cast", "Load", "Store", "Discard",
    "Add", "Sub", "Mul", "Div", "Rem", "Neg",
    "And", "Or", "Xor", "LShift", "RShift", "Not",
    "EQ", "NEQ", "LT", "GT", "LEQ", "GEQ",
    "CallDirect", "CallIndirect", "IfBlock", "LoopBlock",
    "Break", "Continue", "Return", "ReturnVoid">>

\* `variant as u8`
as_u8(enum, variant) == (CHOOSE i \in 1..Len(enum) : enum[i] = variant) - 1

\* transmute(byte), for a byte inside the range
transmute(enum, byte) == enum[byte + 1]

----------------------------------------------------------------------------
(* Codec primitives: Encode appends the returned bytes to the sink *)

RECURSIVE EncodeOf(_, _), DecodeOf(_, _)

bool_encode(x) == <<IF x THEN 1 ELSE 0>>

u8_encode(x) == <<x>>

i8_encode(x) == <<(x + 256) % 256>>

u16_encode(x) == to_le_bytes(<<x>>)

u32_encode(x) == to_le_bytes(x)

u64_encode(x) == to_le_bytes(x)

i16_encode(x) == to_le_bytes(i16_limbs(x))

i32_encode(x) == to_le_bytes(i32_limbs(x))

i64_encode(x) == to_le_bytes(x)

f32_encode(x) == to_le_bytes(x)

f64_encode(x) == to_le_bytes(x)

usize_encode(n) == u64_encode(U64Of(n))

\* isize -> i64 (*self as i64): the sign is extended into the high limbs
isize_encode(n) ==
  i64_encode(<<n % LimbBase, (n \div LimbBase) % LimbBase,
               IF n < 0 THEN LimbBase - 1 ELSE 0,
               IF n < 0 THEN LimbBase - 1 ELSE 0>>)

RECURSIVE slice_encode(_, _)
slice_encode(E, s) ==
  IF s = <<>> THEN <<>>
  ELSE EncodeOf(E, Head(s)) \o slice_encode(E, Tail(s))

str_encode_nul(s) == usize_encode(Len(s)) \o slice_encode("u8", s) \o <<0>>

str_encode(s) == usize_encode(Len(s)) \o slice_encode("u8", s)

Vec_encode(E, v) == usize_encode(Len(v)) \o slice_encode(E, v)

\* an Option is <<>> (None) or <<e>> (Some(e))
Option_encode(E, o) ==
  IF o # <<>> THEN bool_encode(TRUE) \o EncodeOf(E, o[1])
  ELSE bool_encode(FALSE)

\* the fields of a struct (or the operands of a variant), decoded in
\* declaration order; the first Err is returned
RECURSIVE DecodeFields(_, _, _)
NextField(fields, acc, r) ==
  IF r.err # "Ok" THEN r
  ELSE DecodeFields(Tail(fields), r.rest, Append(acc, r.val))

DecodeFields(fields, b, acc) ==
  IF fields = <<>> THEN Ok(acc, b)
  ELSE NextField(fields, acc, DecodeOf(Head(fields), b))

u8_decode(b) ==
  IF Len(b) >= 1 THEN Ok(b[1], Tail(b)) ELSE Err("EOF", b)

bool_decode_nonzero(b) ==
  LET byte == u8_decode(b)
  IN  IF byte.err # "Ok" THEN byte ELSE Ok(byte.val # 0, byte.rest)

bool_decode(b) ==
  LET byte == u8_decode(b)
  IN  IF byte.err # "Ok" THEN byte ELSE Ok(byte.val = 1, byte.rest)

i8_decode(b) ==
  LET byte == u8_decode(b)
  IN  IF byte.err # "Ok" THEN byte
      ELSE Ok(IF byte.val >= 128 THEN byte.val - 256 ELSE byte.val, byte.rest)

BytePair_decode(b) ==
  IF Len(b) >= 2 THEN Ok(SubSeq(b, 1, 2), SubSeq(b, 3, Len(b)))
  ELSE Err("EOF", b)

ByteQuad_decode(b) ==
  IF Len(b) >= 4 THEN Ok(SubSeq(b, 1, 4), SubSeq(b, 5, Len(b)))
  ELSE Err("EOF", b)

ByteOctet_decode(b) ==
  IF Len(b) >= 8 THEN Ok(SubSeq(b, 1, 8), SubSeq(b, 9, Len(b)))
  ELSE Err("EOF", b)

u16_decode(b) ==
  LET bytes == BytePair_decode(b)
  IN  IF bytes.err # "Ok" THEN bytes
      ELSE Ok(from_le_bytes(bytes.val)[1], bytes.rest)

u32_decode(b) ==
  LET bytes == ByteQuad_decode(b)
  IN  IF bytes.err # "Ok" THEN bytes
      ELSE Ok(from_le_bytes(bytes.val), bytes.rest)

u64_decode(b) ==
  LET bytes == ByteOctet_decode(b)
  IN  IF bytes.err # "Ok" THEN bytes
      ELSE Ok(from_le_bytes(bytes.val), bytes.rest)

i16_decode(b) ==
  LET bytes == BytePair_decode(b)
  IN  IF bytes.err # "Ok" THEN bytes
      ELSE Ok(limbs_i16(from_le_bytes(bytes.val)), bytes.rest)

i32_decode(b) ==
  LET bytes == ByteQuad_decode(b)
  IN  IF bytes.err # "Ok" THEN bytes
      ELSE Ok(limbs_i32(from_le_bytes(bytes.val)), bytes.rest)

i64_decode(b) ==
  LET bytes == ByteOctet_decode(b)
  IN  IF bytes.err # "Ok" THEN bytes
      ELSE Ok(from_le_bytes(bytes.val), bytes.rest)

f32_decode(b) ==
  LET bytes == ByteQuad_decode(b)
  IN  IF bytes.err # "Ok" THEN bytes
      ELSE Ok(from_le_bytes(bytes.val), bytes.rest)

f64_decode(b) ==
  LET bytes == ByteOctet_decode(b)
  IN  IF bytes.err # "Ok" THEN bytes
      ELSE Ok(from_le_bytes(bytes.val), bytes.rest)

String_decode_unchecked(b) ==
  LET length == u64_decode(b)
  IN  IF length.err # "Ok" THEN length
      ELSE IF NatLess(Len(length.rest), length.val)
        THEN Err("EOF", length.rest)
        ELSE Ok(SubSeq(length.rest, 1, AsNat(length.val)),
                SubSeq(length.rest, AsNat(length.val) + 1, Len(length.rest)))

String_decode(b) ==
  LET length == u64_decode(b)
  IN  IF length.err # "Ok" THEN length
      ELSE IF NatLess(Len(length.rest), length.val)
        THEN Err("EOF", length.rest)
      ELSE IF IsUtf8(SubSeq(length.rest, 1, AsNat(length.val)))
        THEN Ok(SubSeq(length.rest, 1, AsNat(length.val)),
                SubSeq(length.rest, AsNat(length.val) + 1, Len(length.rest)))
        ELSE Err("InvalidString", length.rest)

\* size_of::<D>() on a 64-bit target; for the structs and the data-carrying
\* enums the sum of the field sizes, a lower bound of the compiler's layout
SizeOf(D) ==
  CASE D \in {"u8", "bool", "TypeDataKind", "IntrinsicType",
              "AliasDataKind", "InstructionKind"} -> 1
    [] D \in {"TypeID", "GlobalID", "FunctionID", "LocalID",
              "ElementID", "ID", "u64"} -> 8
    [] D = "Type" -> 48
    [] D = "Import" -> 48
    [] D = "Export" -> 48
    [] D \in {"Global", "Function"} -> 40
    [] D = "ImportModule" -> 51
    [] D = "Instruction" -> 48

\* Vec::with_capacity(length): the reservation is larger than isize::MAX
\* bytes ("capacity overflow" panic)
CapacityOverflow(D, length) == MulOverflows(length, SizeOf(D))

\* Vec::with_capacity(length): a reservation of 2^31 elements or more is one
\* the allocator may refuse (the process aborts) or grant
MayExhaustMemory(length) == ~IsSmall(length)

RECURSIVE Vec_decode_loop(_, _, _, _)
Vec_decode_loop_front(D, b, length, vec) ==
  IF ~NatLess(Len(vec), length) THEN Ok(vec, b)
  ELSE LET r == DecodeOf(D, b)
       IN  IF r.err # "Ok" THEN r
           ELSE Vec_decode_loop(D, r.rest, length, <<r.val>> \o vec)

Vec_decode_loop(D, b, length, vec) ==
  IF ~NatLess(Len(vec), length) THEN Ok(vec, b)
  ELSE LET r == DecodeOf(D, b)
       IN  IF r.err # "Ok" THEN r
           ELSE Vec_decode_loop(D, r.rest, length, Append(vec, r.val))

Vec_decode(D, b) ==
  LET length == u64_decode(b)
  IN  IF length.err # "Ok" THEN length
      ELSE IF CapacityOverflow(D, length.val) THEN Err("Panic", length.rest)
      ELSE IF MayExhaustMemory(length.val) /\ oom THEN Err("Abort", length.rest)
      ELSE Vec_decode_loop(D, length.rest, length.val, <<>>)

Option_decode_skip(D, b) ==
  LET is_some == bool_decode(b)
  IN  IF is_some.err # "Ok" THEN is_some
      ELSE IF is_some.val
        THEN LET r == DecodeOf(D, is_some.rest)
             IN  IF r.err # "Ok" THEN r ELSE Ok(<<r.val>>, r.rest)
        ELSE Ok(<<>>, IF is_some.rest = <<>> THEN <<>> ELSE Tail(is_some.rest))

Option_decode(D, b) ==
  LET is_some == bool_decode(b)
  IN  IF is_some.err # "Ok" THEN is_some
      ELSE IF is_some.val
        THEN LET r == DecodeOf(D, is_some.rest)
             IN  IF r.err # "Ok" THEN r ELSE Ok(<<r.val>>, r.rest)
        ELSE Ok(<<>>, is_some.rest)

----------------------------------------------------------------------------
(* Bytecode model *)

Version_encode(v) ==
  u8_encode(v.major) \o u8_encode(v.minor) \o u8_encode(v.patch)

Version_decode(b) ==
  LET f == DecodeFields(<<"u8", "u8", "u8">>, b, <<>>)
  IN  IF f.err # "Ok" THEN f
      ELSE Ok([major |-> f.val[1], minor |-> f.val[2], patch |-> f.val[3]], f.rest)

ID_encode(i) == u64_encode(i)

ID_decode(b) == u64_decode(b)

TypeDataKind_encode(kind) == <<as_u8(TypeDataKind, kind)>>

TypeDataKind_decode(b) ==
  LET byte == u8_decode(b)
  IN  IF byte.err # "Ok" THEN byte
      ELSE IF /\ byte.val >= as_u8(TypeDataKind, "Intrinsic")
              /\ byte.val <= as_u8(TypeDataKind, "Function")
        THEN Ok(transmute(TypeDataKind, byte.val), byte.rest)
        ELSE Err("UnexpectedValue", byte.rest)

IntrinsicType_encode(ity) == <<as_u8(IntrinsicType, ity)>>

IntrinsicType_decode(b) ==
  LET byte == u8_decode(b)
  IN  IF byte.err # "Ok" THEN byte
      ELSE IF /\ byte.val >= as_u8(IntrinsicType, "Void")
              /\ byte.val <= as_u8(IntrinsicType, "F64")
        THEN Ok(transmute(IntrinsicType, byte.val), byte.rest)
        ELSE Err("UnexpectedValue", byte.rest)

AliasDataKind_encode(kind) == <<as_u8(AliasDataKind, kind)>>

AliasDataKind_decode_short(b) ==
  LET byte == u8_decode(b)
  IN  IF byte.err # "Ok" THEN byte
      ELSE IF /\ byte.val >= as_u8(AliasDataKind, "Namespace")
              /\ byte.val < as_u8(AliasDataKind, "Function")
        THEN Ok(transmute(AliasDataKind, byte.val), byte.rest)
        ELSE Err("UnexpectedValue", byte.rest)

AliasDataKind_decode(b) ==
  LET byte == u8_decode(b)
  IN  IF byte.err # "Ok" THEN byte
      ELSE IF /\ byte.val >= as_u8(AliasDataKind, "Namespace")
              /\ byte.val <= as_u8(AliasDataKind, "Function")
        THEN Ok(transmute(AliasDataKind, byte.val), byte.rest)
        ELSE Err("UnexpectedValue", byte.rest)

InstructionKind_encode(kind) == <<as_u8(InstructionKind, kind)>>

InstructionKind_decode_short(b) ==
  LET byte == u8_decode(b)
  IN  IF byte.err # "Ok" THEN byte
      ELSE IF /\ byte.val >= as_u8(InstructionKind, "NoOp")
              /\ byte.val < as_u8(InstructionKind, "ReturnVoid")
        THEN Ok(transmute(InstructionKind, byte.val), byte.rest)
        ELSE Err("UnexpectedValue", byte.rest)

InstructionKind_decode(b) ==
  LET byte == u8_decode(b)
  IN  IF byte.err # "Ok" THEN byte
      ELSE IF /\ byte.val >= as_u8(InstructionKind, "NoOp")
              /\ byte.val <= as_u8(InstructionKind, "ReturnVoid")
        THEN Ok(transmute(InstructionKind, byte.val), byte.rest)
        ELSE Err("UnexpectedValue", byte.rest)

TypeData_encode(d) ==
  TypeDataKind_encode(d.k) \o
  CASE d.k = "Intrinsic" -> IntrinsicType_encode(d.ity)
    [] d.k = "Pointer"   -> ID_encode(d.idx)
    [] d.k = "Struct"    -> Vec_encode("TypeID", d.fields)
    [] d.k = "Function"  -> Vec_encode("TypeID", d.parameters) \o
                            Option_encode("TypeID", d.result)

TypeData_decode(b) ==
  LET kind == TypeDataKind_decode(b)
      r == CASE kind.val = "Intrinsic" -> IntrinsicType_decode(kind.rest)
             [] kind.val = "Pointer"   -> DecodeOf("TypeID", kind.rest)
             [] kind.val = "Struct"    -> Vec_decode("TypeID", kind.rest)
             [] kind.val = "Function"  ->
                  DecodeFields(<<"Vec<TypeID>", "Option<TypeID>">>, kind.rest,
                               <<>>)
  IN  IF kind.err # "Ok" THEN kind
      ELSE IF r.err # "Ok" THEN r
      ELSE Ok(CASE kind.val = "Intrinsic" -> [k |-> "Intrinsic", ity |-> r.val]
                [] kind.val = "Pointer"   -> [k |-> "Pointer", idx |-> r.val]
                [] kind.val = "Struct"    -> [k |-> "Struct", fields |-> r.val]
                [] kind.val = "Function"  ->
                     [k |-> "Function", parameters |-> r.val[1],
                      result |-> r.val[2]],
              r.rest)

Type_encode(t) == ID_encode(t.id) \o TypeData_encode(t.data)

Type_decode(b) ==
  LET f == DecodeFields(<<"TypeID", "TypeData">>, b, <<>>)
  IN  IF f.err # "Ok" THEN f
      ELSE Ok([id |-> f.val[1], data |-> f.val[2]], f.rest)

ImportData_encode(d) ==
  AliasDataKind_encode(d.k) \o
  CASE d.k = "Namespace" -> Vec_encode("Import", d.items)
    [] d.k = "Global"    -> ID_encode(d.g_idx) \o ID_encode(d.t_idx)
    [] d.k = "Function"  -> ID_encode(d.f_idx) \o ID_encode(d.t_idx)

ImportData_decode(b) ==
  LET kind == AliasDataKind_decode(b)
      r == CASE kind.val = "Namespace" -> Vec_decode("Import", kind.rest)
             [] kind.val = "Global" ->
                  DecodeFields(<<"GlobalID", "TypeID">>, kind.rest, <<>>)
             [] kind.val = "Function" ->
                  DecodeFields(<<"FunctionID", "TypeID">>, kind.rest, <<>>)
  IN  IF kind.err # "Ok" THEN kind
      ELSE IF r.err # "Ok" THEN r
      ELSE Ok(CASE kind.val = "Namespace" -> [k |-> "Namespace", items |-> r.val]
                [] kind.val = "Global" ->
                     [k |-> "Global", g_idx |-> r.val[1], t_idx |-> r.val[2]]
                [] kind.val = "Function" ->
                     [k |-> "Function", f_idx |-> r.val[1], t_idx |-> r.val[2]],
              r.rest)

Import_encode(i) == str_encode(i.name) \o ImportData_encode(i.data)

Import_decode(b) ==
  LET f == DecodeFields(<<"String", "ImportData">>, b, <<>>)
  IN  IF f.err # "Ok" THEN f
      ELSE Ok([name |-> f.val[1], data |-> f.val[2]], f.rest)

ImportModule_encode(m) ==
  str_encode(m.name) \o Version_encode(m.version) \o
  Vec_encode("Import", m.items)

ImportModule_decode(b) ==
  LET f == DecodeFields(<<"String", "Version", "Vec<Import>">>, b, <<>>)
  IN  IF f.err # "Ok" THEN f
      ELSE Ok([name |-> f.val[1], version |-> f.val[2],
               items |-> f.val[3]], f.rest)

ExportData_encode(d) ==
  AliasDataKind_encode(d.k) \o
  CASE d.k = "Namespace" -> Vec_encode("Export", d.items)
    [] d.k = "Global"    -> ID_encode(d.g_idx)
    [] d.k = "Function"  -> ID_encode(d.f_idx)

ExportData_decode(b) ==
  LET kind == AliasDataKind_decode(b)
      r == CASE kind.val = "Namespace" -> Vec_decode("Export", kind.rest)
             [] kind.val = "Global"    -> DecodeOf("GlobalID", kind.rest)
             [] kind.val = "Function"  -> DecodeOf("FunctionID", kind.rest)
  IN  IF kind.err # "Ok" THEN kind
      ELSE IF r.err # "Ok" THEN r
      ELSE Ok(CASE kind.val = "Namespace" -> [k |-> "Namespace", items |-> r.val]
                [] kind.val = "Global"    -> [k |-> "Global", g_idx |-> r.val]
                [] kind.val = "Function"  -> [k |-> "Function", f_idx |-> r.val],
              r.rest)

Export_encode(e) == str_encode(e.name) \o ExportData_encode(e.data)

Export_decode(b) ==
  LET f == DecodeFields(<<"String", "ExportData">>, b, <<>>)
  IN  IF f.err # "Ok" THEN f
      ELSE Ok([name |-> f.val[1], data |-> f.val[2]], f.rest)

\* ImmediateValue: the payload of a variant is held in field b (bool),
\* x (u8, u16, i8, i16, i32: an integer) or w (u32, u64, i64, f32, f64: limbs)
WideImmediate == {"U32", "U64", "S64", "F32", "F64"}

ImmediateValue_from(ity, p) ==
  CASE ity = "Bool" -> [k |-> ity, b |-> p]
    [] ity \in WideImmediate -> [k |-> ity, w |-> p]
    [] OTHER -> [k |-> ity, x |-> p]

ImmediateValue_get_intrinsic_type(v) == v.k

ImmediateValue_encode(v) ==
  IntrinsicType_encode(ImmediateValue_get_intrinsic_type(v)) \o
  CASE v.k = "Bool" -> bool_encode(v.b)
    [] v.k = "U8"   -> u8_encode(v.x)
    [] v.k = "U16"  -> u16_encode(v.x)
    [] v.k = "U32"  -> u32_encode(v.w)
    [] v.k = "U64"  -> u64_encode(v.w)
    [] v.k = "S8"   -> i8_encode(v.x)
    [] v.k = "S16"  -> i16_encode(v.x)
    [] v.k = "S32"  -> i32_encode(v.x)
    [] v.k = "S64"  -> i64_encode(v.w)
    [] v.k = "F32"  -> f32_encode(v.w)
    [] v.k = "F64"  -> f64_encode(v.w)

ImmediateValue_decode_any(b) ==
  LET ity == IntrinsicType_decode(b)
      r == CASE ity.val \in {"Bool", "Void"} -> bool_decode(ity.rest)
             [] ity.val = "U8"   -> u8_decode(ity.rest)
             [] ity.val = "U16"  -> u16_decode(ity.rest)
             [] ity.val = "U32"  -> u32_decode(ity.rest)
             [] ity.val = "U64"  -> u64_decode(ity.rest)
             [] ity.val = "S8"   -> i8_decode(ity.rest)
             [] ity.val = "S16"  -> i16_decode(ity.rest)
             [] ity.val = "S32"  -> i32_decode(ity.rest)
             [] ity.val = "S64"  -> i64_decode(ity.rest)
             [] ity.val = "F32"  -> f32_decode(ity.rest)
             [] ity.val = "F64"  -> f64_decode(ity.rest)
  IN  IF ity.err # "Ok" THEN ity
      ELSE IF r.err # "Ok" THEN r
      ELSE Ok(ImmediateValue_from(IF ity.val = "Void" THEN "Bool" ELSE ity.val,
                                  r.val), r.rest)

ImmediateValue_decode(b) ==
  LET ity == IntrinsicType_decode(b)
      r == CASE ity.val = "Bool" -> bool_decode(ity.rest)
             [] ity.val = "U8"   -> u8_decode(ity.rest)
             [] ity.val = "U16"  -> u16_decode(ity.rest)
             [] ity.val = "U32"  -> u32_decode(ity.rest)
             [] ity.val = "U64"  -> u64_decode(ity.rest)
             [] ity.val = "S8"   -> i8_decode(ity.rest)
             [] ity.val = "S16"  -> i16_decode(ity.rest)
             [] ity.val = "S32"  -> i32_decode(ity.rest)
             [] ity.val = "S64"  -> i64_decode(ity.rest)
             [] ity.val = "F32"  -> f32_decode(ity.rest)
             [] ity.val = "F64"  -> f64_decode(ity.rest)
  IN  IF ity.err # "Ok" THEN ity
      ELSE IF ity.val = "Void" THEN Err("UnexpectedValue", ity.rest)
      ELSE IF r.err # "Ok" THEN r
      ELSE Ok(ImmediateValue_from(ity.val, r.val), r.rest)

\* the instructions that carry one id operand, with the type of the id
IdOperand ==
  [CreateLocal |-> "TypeID", LocalAddress |-> "LocalID",
   GlobalAddress |-> "GlobalID", FunctionAddress |-> "FunctionID",
   GetElement |-> "ElementID", Cast |-> "TypeID",
   CallDirect |-> "FunctionID"]

Instruction_encode(i) ==
  InstructionKind_encode(i.k) \o
  CASE i.k = "ImmediateValue" -> ImmediateValue_encode(i.imm)
    [] i.k \in DOMAIN IdOperand -> EncodeOf(IdOperand[i.k], i.idx)
    [] i.k = "IfBlock" -> Vec_encode("Instruction", i.then_instrs) \o
                          Vec_encode("Instruction", i.else_instrs)
    [] i.k = "LoopBlock" -> Vec_encode("Instruction", i.loop_instrs)
    [] OTHER -> <<>>

Instruction_decode(b) ==
  LET kind == InstructionKind_decode(b)
      r == CASE kind.val = "ImmediateValue" -> ImmediateValue_decode(kind.rest)
             [] kind.val \in DOMAIN IdOperand ->
                  DecodeOf(IdOperand[kind.val], kind.rest)
             [] kind.val = "IfBlock" ->
                  DecodeFields(<<"Vec<Instruction>", "Vec<Instruction>">>,
                               kind.rest, <<>>)
             [] kind.val = "LoopBlock" -> Vec_decode("Instruction", kind.rest)
             [] OTHER -> Ok(<<>>, kind.rest)
  IN  IF kind.err # "Ok" THEN kind
      ELSE IF r.err # "Ok" THEN r
      ELSE Ok(CASE kind.val = "ImmediateValue" -> [k |-> kind.val, imm |-> r.val]
                [] kind.val \in DOMAIN IdOperand -> [k |-> kind.val, idx |-> r.val]
                [] kind.val = "IfBlock" ->
                     [k |-> kind.val, then_instrs |-> r.val[1],
                      else_instrs |-> r.val[2]]
                [] kind.val = "LoopBlock" -> [k |-> kind.val, loop_instrs |-> r.val]
                [] OTHER -> [k |-> kind.val],
              r.rest)

Global_encode(g) ==
  ID_encode(g.id) \o ID_encode(g.ty) \o
  Vec_encode("Instruction", g.initializer)

Global_decode(b) ==
  LET f == DecodeFields(<<"GlobalID", "TypeID", "Vec<Instruction>">>, b, <<>>)
  IN  IF f.err # "Ok" THEN f
      ELSE Ok([id |-> f.val[1], ty |-> f.val[2],
               initializer |-> f.val[3]], f.rest)

Function_encode(f) ==
  ID_encode(f.id) \o ID_encode(f.ty) \o
  Vec_encode("Instruction", f.body)

Function_decode(b) ==
  LET f == DecodeFields(<<"FunctionID", "TypeID", "Vec<Instruction>">>, b, <<>>)
  IN  IF f.err # "Ok" THEN f
      ELSE Ok([id |-> f.val[1], ty |-> f.val[2], body |-> f.val[3]], f.rest)

Module_encode(m) ==
  str_encode(m.name) \o Version_encode(m.version) \o
  Vec_encode("Type", m.types) \o Vec_encode("ImportModule", m.imports) \o
  Vec_encode("Global", m.globals) \o Vec_encode("Function", m.functions) \o
  Vec_encode("Export", m.exports)

Module_decode(b) ==
  LET f == DecodeFields(<<"String", "Version", "Vec<Type>", "Vec<ImportModule>", "Vec<Global>", "Vec<Function>", "Vec<Export>">>, b, <<>>)
  IN  IF f.err # "Ok" THEN f
      ELSE Ok([name |-> f.val[1], version |-> f.val[2], types |-> f.val[3],
               imports |-> f.val[4], globals |-> f.val[5],
               functions |-> f.val[6], exports |-> f.val[7]], f.rest)

\* E::encode / D::decode of the generic impls, by the name of the type
EncodeOf(E, v) ==
  CASE E = "u8"              -> u8_encode(v)
    [] E = "u16"             -> u16_encode(v)
    [] E = "u32"             -> u32_encode(v)
    [] E = "u64"             -> u64_encode(v)
    [] E = "i16"             -> i16_encode(v)
    [] E = "i32"             -> i32_encode(v)
    [] E = "i64"             -> i64_encode(v)
    [] E = "usize"           -> usize_encode(v)
    [] E = "isize"           -> isize_encode(v)
    [] E = "TypeID"          -> ID_encode(v)
    [] E = "GlobalID"        -> ID_encode(v)
    [] E = "FunctionID"      -> ID_encode(v)
    [] E = "LocalID"         -> ID_encode(v)
    [] E = "ElementID"       -> ID_encode(v)
    [] E = "TypeDataKind"    -> TypeDataKind_encode(v)
    [] E = "IntrinsicType"   -> IntrinsicType_encode(v)
    [] E = "AliasDataKind"   -> AliasDataKind_encode(v)
    [] E = "InstructionKind" -> InstructionKind_encode(v)
    [] E = "Type"            -> Type_encode(v)
    [] E = "ImportModule"    -> ImportModule_encode(v)
    [] E = "Import"          -> Import_encode(v)
    [] E = "Global"          -> Global_encode(v)
    [] E = "Function"        -> Function_encode(v)
    [] E = "Export"          -> Export_encode(v)
    [] E = "Instruction"     -> Instruction_encode(v)
    [] E = "bool"            -> bool_encode(v)
    [] E = "String"          -> str_encode(v)
    [] E = "ImmediateValue"  -> ImmediateValue_encode(v)
    [] E = "Option<TypeID>"  -> Option_encode("TypeID", v)
    [] E = "Vec<TypeID>"     -> Vec_encode("TypeID", v)

DecodeOf(D, b) ==
  CASE D = "u8"              -> u8_decode(b)
    [] D = "u16"             -> u16_decode(b)
    [] D = "u32"             -> u32_decode(b)
    [] D = "u64"             -> u64_decode(b)
    [] D = "i16"             -> i16_decode(b)
    [] D = "i32"             -> i32_decode(b)
    [] D = "i64"             -> i64_decode(b)
    [] D = "usize"           -> u64_decode(b)
    [] D = "isize"           -> i64_decode(b)
    [] D = "bool"            -> bool_decode(b)
    [] D = "String"          -> String_decode(b)
    [] D = "Version"         -> Version_decode(b)
    [] D = "TypeID"          -> ID_decode(b)
    [] D = "GlobalID"        -> ID_decode(b)
    [] D = "FunctionID"      -> ID_decode(b)
    [] D = "LocalID"         -> ID_decode(b)
    [] D = "ElementID"       -> ID_decode(b)
    [] D = "TypeDataKind"    -> TypeDataKind_decode(b)
    [] D = "IntrinsicType"   -> IntrinsicType_decode(b)
    [] D = "AliasDataKind"   -> AliasDataKind_decode(b)
    [] D = "InstructionKind" -> InstructionKind_decode(b)
    [] D = "TypeData"        -> TypeData_decode(b)
    [] D = "Type"            -> Type_decode(b)
    [] D = "ImportData"      -> ImportData_decode(b)
    [] D = "Import"          -> Import_decode(b)
    [] D = "ImportModule"    -> ImportModule_decode(b)
    [] D = "ExportData"      -> ExportData_decode(b)
    [] D = "Export"          -> Export_decode(b)
    [] D = "ImmediateValue"  -> ImmediateValue_decode(b)
    [] D = "Instruction"     -> Instruction_decode(b)
    [] D = "Global"          -> Global_decode(b)
    [] D = "Function"        -> Function_decode(b)
    [] D = "Module"          -> Module_decode(b)
    [] D = "Option<TypeID>"  -> Option_decode("TypeID", b)
    [] D = "Vec<TypeID>"     -> Vec_decode("TypeID", b)
    [] D = "Vec<Type>"       -> Vec_decode("Type", b)
    [] D = "Vec<Import>"     -> Vec_decode("Import", b)
    [] D = "Vec<ImportModule>" -> Vec_decode("ImportModule", b)
    [] D = "Vec<Global>"     -> Vec_decode("Global", b)
    [] D = "Vec<Function>"   -> Vec_decode("Function", b)
    [] D = "Vec<Export>"     -> Vec_decode("Export", b)
    [] D = "Vec<Instruction>" -> Vec_decode("Instruction", b)

----------------------------------------------------------------------------
(* derive(PartialEq): f32 and f64 compare by IEEE 754, all else by structure *)

f32_eq(a, b) ==
  LET is_nan(x) == (x[2] \div 128) % 256 = 255 /\ (x[2] % 128 # 0 \/ x[1] # 0)
      is_zero(x) == x[2] % 32768 = 0 /\ x[1] = 0
  IN  /\ ~is_nan(a)
      /\ ~is_nan(b)
      /\ (a = b \/ (is_zero(a) /\ is_zero(b)))

f64_eq(a, b) ==
  LET is_nan(x) == /\ (x[4] \div 16) % 2048 = 2047
                   /\ (x[4] % 16 # 0 \/ x[3] # 0 \/ x[2] # 0 \/ x[1] # 0)
      is_zero(x) == x[4] % 32768 = 0 /\ x[3] = 0 /\ x[2] = 0 /\ x[1] = 0
  IN  /\ ~is_nan(a)
      /\ ~is_nan(b)
      /\ (a = b \/ (is_zero(a) /\ is_zero(b)))

ImmediateValue_eq(a, b) ==
  /\ a.k = b.k
  /\ CASE a.k = "F32" -> f32_eq(a.w, b.w)
       [] a.k = "F64" -> f64_eq(a.w, b.w)
       [] OTHER -> a = b

RECURSIVE Instruction_eq(_, _)
VecInstruction_eq(a, b) ==
  /\ Len(a) = Len(b)
  /\ \A i \in 1..Len(a) : Instruction_eq(a[i], b[i])

Instruction_eq(a, b) ==
  /\ a.k = b.k
  /\ CASE a.k = "ImmediateValue" -> ImmediateValue_eq(a.imm, b.imm)
       [] a.k = "IfBlock" ->
            /\ VecInstruction_eq(a.then_instrs, b.then_instrs)
            /\ VecInstruction_eq(a.else_instrs, b.else_instrs)
       [] a.k = "LoopBlock" -> VecInstruction_eq(a.loop_instrs, b.loop_instrs)
       [] OTHER -> a = b

Global_eq(a, b) ==
  a.id = b.id /\ a.ty = b.ty /\ VecInstruction_eq(a.initializer, b.initializer)

Function_eq(a, b) ==
  a.id = b.id /\ a.ty = b.ty /\ VecInstruction_eq(a.body, b.body)

Module_eq(a, b) ==
  /\ a.name = b.name
  /\ a.version = b.version
  /\ a.types = b.types
  /\ a.imports = b.imports
  /\ Len(a.globals) = Len(b.globals)
  /\ \A i \in 1..Len(a.globals) : Global_eq(a.globals[i], b.globals[i])
  /\ Len(a.functions) = Len(b.functions)
  /\ \A i \in 1..Len(a.functions) : Function_eq(a.functions[i], b.functions[i])
  /\ a.exports = b.exports

----------------------------------------------------------------------------
(* Values the caller builds *)

\* total number of entries pushed into the vectors of one Module
MaxItems == 2

NoResult == [err |-> "None", val |-> <<>>, rest |-> <<>>]

\* "mod" and "e-acute" as UTF-8
Names == {<<109, 111, 100>>, <<195, 169>>}

Versions == {[major |-> 0, minor |-> 0, patch |-> 1],
             [major |-> 255, minor |-> 2, patch |-> 0]}

U64Max == <<65535, 65535, 65535, 65535>>

IDs == {U64Of(1), <<258, 772, 1286, 1800>>}

\* every variant of ImmediateValue; the floats are 1.0, NaN, -0.0 and
\* 99.0, NaN
Immediates ==
  {ImmediateValue_from("Bool", v) : v \in BOOLEAN} \cup
  {ImmediateValue_from("U8", 200), ImmediateValue_from("U16", 258),
   ImmediateValue_from("S8", -2), ImmediateValue_from("S16", -258),
   ImmediateValue_from("S32", -66000),
   ImmediateValue_from("U32", <<258, 772>>),
   ImmediateValue_from("S64", <<99, 0, 0, 0>>)} \cup
  {ImmediateValue_from("U64", v) : v \in IDs} \cup
  {ImmediateValue_from("F32", v) :
     v \in {<<0, 16256>>, <<0, 32704>>, <<0, 32768>>}} \cup
  {ImmediateValue_from("F64", v) :
     v \in {<<0, 0, 49152, 16472>>, <<0, 0, 0, 32760>>}}

Types ==
  LET TypeDatas ==
        {[k |-> "Intrinsic", ity |-> t] : t \in {"Void", "S64", "F64"}} \cup
        {[k |-> "Pointer", idx |-> U64Of(1)]} \cup
        {[k |-> "Struct", fields |-> f] : f \in {<<>>, <<U64Of(1), U64Of(0)>>}} \cup
        {[k |-> "Function", parameters |-> p, result |-> r] :
           p \in {<<>>, <<U64Of(0), U64Of(0)>>}, r \in {<<>>, <<U64Of(0)>>}}
  IN  {[id |-> U64Of(2), data |-> d] : d \in TypeDatas}

ImportModules ==
  LET LeafImports ==
        {[name |-> <<103>>,
          data |-> [k |-> "Global", g_idx |-> U64Of(0), t_idx |-> U64Of(1)]],
         [name |-> <<102>>,
          data |-> [k |-> "Function", f_idx |-> U64Of(1), t_idx |-> U64Of(0)]]}
      Imports ==
        LeafImports \cup
        {[name |-> <<110>>, data |-> [k |-> "Namespace", items |-> <<i>>]] :
           i \in LeafImports}
      version == [major |-> 1, minor |-> 2, patch |-> 0]
  IN  {[name |-> <<195, 169>>, version |-> version, items |-> <<>>]} \cup
      {[name |-> <<109>>, version |-> version, items |-> <<i>>] : i \in Imports}

Exports ==
  LET LeafExports ==
        {[name |-> <<103>>, data |-> [k |-> "Global", g_idx |-> U64Of(1)]],
         [name |-> <<>>, data |-> [k |-> "Function", f_idx |-> U64Of(1)]]}
  IN  LeafExports \cup
      {[name |-> <<110>>, data |-> [k |-> "Namespace", items |-> i]] :
         i \in {<<>>} \cup {<<e>> : e \in LeafExports}}

Globals ==
  {[id |-> U64Of(1), ty |-> U64Of(0),
    initializer |-> <<[k |-> "ImmediateValue", imm |-> v]>>] : v \in Immediates}

Functions ==
  LET Bodies ==
        {<<>>,
         <<[k |-> "GlobalAddress", idx |-> U64Of(1)], [k |-> "Load"],
           [k |-> "CallDirect", idx |-> U64Of(2)], [k |-> "Return"]>>,
         <<[k |-> "IfBlock",
            then_instrs |->
              <<[k |-> "LoopBlock", loop_instrs |-> <<[k |-> "Break"]>>]>>,
            else_instrs |-> <<[k |-> "ReturnVoid"]>>]>>}
  IN  {[id |-> U64Of(1), ty |-> U64Of(2), body |-> b] : b \in Bodies}

Module_empty(name, version) ==
  [name |-> name, version |-> version, types |-> <<>>, imports |-> <<>>,
   globals |-> <<>>, functions |-> <<>>, exports |-> <<>>]

ItemCount(m) ==
  Len(m.types) + Len(m.imports) + Len(m.globals) + Len(m.functions) +
  Len(m.exports)

----------------------------------------------------------------------------
(* Spec: a caller builds a Module, encodes it into an empty sink and      *)
(* decodes a Module from the produced bytes                               *)

Init ==
  /\ value \in {Module_empty(n, v) : n \in Names, v \in Versions}
  /\ buff = <<>>
  /\ result = NoResult
  /\ entity = "Module"
  /\ pc = "build"
  /\ oom = FALSE

CanPush == pc = "build" /\ ItemCount(value) < MaxItems

PushType ==
  /\ CanPush
  /\ \E t \in Types : value' = [value EXCEPT !.types = Append(@, t)]
  /\ UNCHANGED <<buff, result, entity, pc, oom>>

PushImportModule ==
  /\ CanPush
  /\ \E i \in ImportModules : value' = [value EXCEPT !.imports = Append(@, i)]
  /\ UNCHANGED <<buff, result, entity, pc, oom>>

PushGlobal ==
  /\ CanPush
  /\ \E g \in Globals : value' = [value EXCEPT !.globals = Append(@, g)]
  /\ UNCHANGED <<buff, result, entity, pc, oom>>

PushFunction ==
  /\ CanPush
  /\ \E f \in Functions : value' = [value EXCEPT !.functions = Append(@, f)]
  /\ UNCHANGED <<buff, result, entity, pc, oom>>

PushExport ==
  /\ CanPush
  /\ \E e \in Exports : value' = [value EXCEPT !.exports = Append(@, e)]
  /\ UNCHANGED <<buff, result, entity, pc, oom>>

EncodeModule ==
  /\ pc = "build"
  /\ buff' = buff \o Module_encode(value)
  /\ pc' = "encoded"
  /\ UNCHANGED <<value, result, entity, oom>>

DecodeModule ==
  /\ pc = "encoded"
  /\ result' = DecodeOf("Module", buff)
  /\ pc' = "decoded"
  /\ UNCHANGED <<value, buff, entity, oom>>

Next ==
  \/ PushType
  \/ PushImportModule
  \/ PushGlobal
  \/ PushFunction
  \/ PushExport
  \/ EncodeModule
  \/ DecodeModule

Spec == Init /\ [][Next]_vars

\* C1 as stated: the decoded Module compares equal (PartialEq) to v
C1_RoundTripEqual ==
  pc = "decoded" => result.err = "Ok" /\ Module_eq(result.val, value)

\* C1 as amended: decoding the encoding of a Module v succeeds, consumes
\* every byte and returns a Module identical to v in every field, float
\* immediates bit for bit; it compares equal to v under PartialEq exactly
\* when v compares equal to itself (v holds no NaN float immediate)
C1_RoundTrip ==
  pc = "decoded" =>
    /\ result.err = "Ok"
    /\ result.rest = <<>>
    /\ result.val = value
    /\ Module_eq(result.val, value) <=> Module_eq(value, value)

C1_Witness ==
  /\ pc = "decoded"
  /\ result.err = "Ok"
  /\ ItemCount(value) = MaxItems
  /\ value.globals # <<>>
  /\ value.imports # <<>>

----------------------------------------------------------------------------
(* SpecInstr: a caller builds a Vec<Instruction> whose IfBlock and         *)
(* LoopBlock bodies nest, encodes it and decodes it again                  *)

\* instructions in one body
MaxLen == 2

\* nesting depth of the blocks
MaxDepth == 2

\* a NaN immediate and an id operand
LeafInstructions ==
  {[k |-> "ImmediateValue", imm |-> ImmediateValue_from("F32", <<0, 32704>>)],
   [k |-> "GetElement", idx |-> U64Of(55)]}

RECURSIVE BlockDepth(_)
BodyDepth(body) ==
  IF body = <<>> THEN 0
  ELSE LET d == {BlockDepth(body[i]) : i \in 1..Len(body)}
       IN  CHOOSE m \in d : \A n \in d : n <= m

BlockDepth(i) ==
  CASE i.k = "IfBlock" ->
         LET t == BodyDepth(i.then_instrs)
             e == BodyDepth(i.else_instrs)
         IN  1 + (IF t >= e THEN t ELSE e)
    [] i.k = "LoopBlock" -> 1 + BodyDepth(i.loop_instrs)
    [] OTHER -> 0

InitInstr ==
  /\ value = <<>>
  /\ buff = <<>>
  /\ result = NoResult
  /\ entity = "Vec<Instruction>"
  /\ pc = "build"
  /\ oom = FALSE

PushInstruction ==
  /\ pc = "build"
  /\ Len(value) < MaxLen
  /\ \E i \in LeafInstructions : value' = Append(value, i)
  /\ UNCHANGED <<buff, result, entity, pc, oom>>

WrapIf ==
  /\ pc = "build"
  /\ BodyDepth(value) < MaxDepth
  /\ value' = <<[k |-> "IfBlock", then_instrs |-> value,
                 else_instrs |-> <<[k |-> "Break"]>> \o value]>>
  /\ UNCHANGED <<buff, result, entity, pc, oom>>

WrapLoop ==
  /\ pc = "build"
  /\ BodyDepth(value) < MaxDepth
  /\ value' = <<[k |-> "LoopBlock", loop_instrs |-> value]>>
  /\ UNCHANGED <<buff, result, entity, pc, oom>>

EncodeInstructions ==
  /\ pc = "build"
  /\ buff' = buff \o Vec_encode("Instruction", value)
  /\ pc' = "encoded"
  /\ UNCHANGED <<value, result, entity, oom>>

DecodeInstructions ==
  /\ pc = "encoded"
  /\ result' = DecodeOf("Vec<Instruction>", buff)
  /\ pc' = "decoded"
  /\ UNCHANGED <<value, buff, entity, oom>>

NextInstr ==
  \/ PushInstruction
  \/ WrapIf
  \/ WrapLoop
  \/ EncodeInstructions
  \/ DecodeInstructions

SpecInstr == InitInstr /\ [][NextInstr]_vars

\* C2 as stated: the decoded sequence compares equal (PartialEq) to the
\* original and re-encodes to the same bytes
C2_NestedRoundTripEqual ==
  pc = "decoded" =>
    /\ result.err = "Ok"
    /\ VecInstruction_eq(result.val, value)
    /\ Vec_encode("Instruction", result.val) = buff

\* C2 as amended: for every sequence of Instructions whose IfBlock and
\* LoopBlock bodies nest, decoding its encoding returns a sequence identical
\* to it, operand for operand (float immediates bit for bit), and re-encoding
\* the decoded sequence yields exactly the same bytes; the decoded sequence
\* compares equal to the original under PartialEq exactly when the original
\* compares equal to itself (it holds no NaN float immediate)
C2_NestedRoundTrip ==
  pc = "decoded" =>
    /\ result.err = "Ok"
    /\ result.val = value
    /\ Vec_encode("Instruction", result.val) = buff
    /\ VecInstruction_eq(result.val, value) <=> VecInstruction_eq(value, value)

C2_Witness ==
  /\ pc = "decoded"
  /\ result.err = "Ok"
  /\ BodyDepth(value) = MaxDepth
  /\ Len(value) = MaxLen

----------------------------------------------------------------------------
(* SpecBytes: a decoder reads a buffer that starts with an arbitrary tag   *)
(* or discriminant byte, or the encoding of a bool, Option or              *)
(* ImmediateValue                                                          *)

\* items that may follow the leading byte
MaxTail == 1

TailItems ==
  {<<0>>, <<1>>, <<255>>, u64_encode(U64Of(1)), u64_encode(U64Max)}

Options == {<<>>} \cup {<<i>> : i \in IDs}

ByteDecoders ==
  {"TypeDataKind", "IntrinsicType", "AliasDataKind", "InstructionKind",
   "bool", "Option<TypeID>", "ImmediateValue", "Instruction", "TypeData"}

InitBytes ==
  /\ value = <<>>
  /\ buff = <<>>
  /\ result = NoResult
  /\ entity = "raw"
  /\ pc = "build"
  /\ oom \in BOOLEAN

PushLead ==
  /\ pc = "build"
  /\ buff = <<>>
  /\ \E b \in 0..255 :
       /\ buff' = <<b>>
       /\ value' = Append(value, <<b>>)
  /\ UNCHANGED <<result, entity, pc, oom>>

PushTail ==
  /\ pc = "build"
  /\ buff # <<>>
  /\ Len(value) <= MaxTail
  /\ \E t \in TailItems :
       /\ buff' = buff \o t
       /\ value' = Append(value, t)
  /\ UNCHANGED <<result, entity, pc, oom>>

EncodeBool ==
  /\ pc = "build"
  /\ buff = <<>>
  /\ \E v \in BOOLEAN :
       /\ value' = v
       /\ buff' = buff \o bool_encode(v)
  /\ entity' = "bool"
  /\ pc' = "encoded"
  /\ UNCHANGED <<result, oom>>

EncodeOption ==
  /\ pc = "build"
  /\ buff = <<>>
  /\ \E v \in Options :
       /\ value' = v
       /\ buff' = buff \o Option_encode("TypeID", v)
  /\ entity' = "Option<TypeID>"
  /\ pc' = "encoded"
  /\ UNCHANGED <<result, oom>>

EncodeImmediateValue ==
  /\ pc = "build"
  /\ buff = <<>>
  /\ \E v \in Immediates :
       /\ value' = v
       /\ buff' = buff \o ImmediateValue_encode(v)
  /\ entity' = "ImmediateValue"
  /\ pc' = "encoded"
  /\ UNCHANGED <<result, oom>>

DecodeBytes ==
  /\ pc \in {"build", "encoded"}
  /\ \E D \in ByteDecoders :
       /\ result' = DecodeOf(D, buff)
       /\ entity' = D
  /\ pc' = "decoded"
  /\ UNCHANGED <<value, buff, oom>>

NextBytes ==
  \/ PushLead
  \/ PushTail
  \/ EncodeBool
  \/ EncodeOption
  \/ EncodeImmediateValue
  \/ DecodeBytes

SpecBytes == InitBytes /\ [][NextBytes]_vars

\* the enum that a kind or type tag byte is decoded into
TagEnum ==
  [TypeDataKind |-> TypeDataKind, IntrinsicType |-> IntrinsicType,
   AliasDataKind |-> AliasDataKind, InstructionKind |-> InstructionKind]

\* the last tag each enum declares
LastTag ==
  [TypeDataKind |-> 3, IntrinsicType |-> 11, AliasDataKind |-> 2,
   InstructionKind |-> 36]

\* C3: for TypeDataKind, IntrinsicType, AliasDataKind and InstructionKind,
\* decoding a byte b returns the variant numbered b when b lies in the
\* enum's declared tag range and Err(UnexpectedValue) when it lies outside
C3_TagRange ==
  (pc = "decoded" /\ entity \in DOMAIN TagEnum /\ buff # <<>>) =>
    IF buff[1] <= LastTag[entity]
    THEN result = Ok(TagEnum[entity][buff[1] + 1], Tail(buff))
    ELSE result.err = "UnexpectedValue"

C3_Witness ==
  /\ pc = "decoded"
  /\ entity = "AliasDataKind"
  /\ buff = <<2>>
  /\ result = Ok("Function", <<>>)

\* the tag byte of an Instruction or InstructionKind is accepted up to
\* `last` (the variant numbered by the tag is decoded; an Instruction may
\* then lack its operands) and rejected with UnexpectedValue above it
InstructionTagsUpTo(last) ==
  (pc = "decoded" /\ buff # <<>>) =>
    /\ entity = "InstructionKind" =>
         IF buff[1] <= last
         THEN /\ result.err = "Ok"
              /\ result.val = InstructionKind[buff[1] + 1]
         ELSE result.err = "UnexpectedValue"
    /\ entity = "Instruction" =>
         IF buff[1] <= last
         THEN Len(buff) = 1 =>
                /\ result.err \in {"Ok", "EOF"}
                /\ result.err = "Ok" =>
                     result.val.k = InstructionKind[buff[1] + 1]
         ELSE result.err = "UnexpectedValue"

\* C4 as stated: Instruction and InstructionKind decode accept every tag
\* byte in 0..=37 and reject every tag byte above 37 with UnexpectedValue
C4_Tags37 == InstructionTagsUpTo(37)

\* C4 as amended: the wire tag of an Instruction is one byte in 0..=36,
\* numbered contiguously from 0 in declaration order; Instruction and
\* InstructionKind decode accept every tag byte in 0..=36 and reject every
\* tag byte above 36 with UnexpectedValue
C4_Tags36 == InstructionTagsUpTo(36)

C4_Witness ==
  /\ pc = "decoded"
  /\ entity = "Instruction"
  /\ buff = <<36>>
  /\ result = Ok([k |-> "ReturnVoid"], <<>>)

\* C5: decoding an ImmediateValue whose leading intrinsic tag byte is Void
\* (0) returns Err(UnexpectedValue) whatever bytes follow, and the first
\* byte of the encoding of an ImmediateValue is never the Void tag
C5_VoidImmediate ==
  /\ (pc = "decoded" /\ entity = "ImmediateValue" /\ buff # <<>> /\ buff[1] = 0)
       => result.err = "UnexpectedValue"
  /\ (pc = "encoded" /\ entity = "ImmediateValue")
       => (buff # <<>> /\ buff[1] # 0)

C5_Witness ==
  /\ pc = "decoded"
  /\ entity = "ImmediateValue"
  /\ Len(buff) > 1
  /\ buff[1] = 0
  /\ result.err = "UnexpectedValue"

\* C9: decoding an Option reads one discriminant byte d and returns None
\* when d = 0 and Some(payload decoded from the following bytes) for every
\* nonzero d; encoding Some(x) emits discriminant 1 and then the payload,
\* encoding None emits the single byte 0
C9_OptionCodec ==
  /\ (pc = "decoded" /\ entity = "Option<TypeID>" /\ buff # <<>>) =>
       IF buff[1] = 0 THEN result = Ok(<<>>, Tail(buff))
       ELSE IF Len(buff) >= 9
         THEN result = Ok(<<from_le_bytes(SubSeq(buff, 2, 9))>>,
                          SubSeq(buff, 10, Len(buff)))
         ELSE result.err = "EOF"
  /\ (pc = "encoded" /\ entity = "Option<TypeID>") =>
       IF value = <<>> THEN buff = <<0>>
       ELSE buff = <<1>> \o to_le_bytes(value[1])

\* C10: encoding a bool into an empty sink produces exactly one byte, 1 for
\* true and 0 for false; decoding a bool consumes one byte b and returns
\* true exactly when b = 1, false for every other byte
C10_BoolCodec ==
  /\ (pc = "encoded" /\ entity = "bool") =>
       buff = <<IF value THEN 1 ELSE 0>>
  /\ (pc = "decoded" /\ entity = "bool" /\ buff # <<>>) =>
       result = Ok(buff[1] = 1, Tail(buff))

C10_Witness ==
  /\ pc = "decoded"
  /\ entity = "bool"
  /\ buff # <<>>
  /\ buff[1] = 2
  /\ result.err = "Ok"
  /\ result.val = FALSE

----------------------------------------------------------------------------
(* SpecFrame: a decoder reads a buffer in which u64 lengths or counts     *)
(* are followed by payload bytes that may be missing or malformed         *)

\* lengths, counts and bytes pushed into one buffer
MaxPush == 3

\* 0, 1, 2, 2^32 and 2^64 - 1
Words == {U64Of(0), U64Of(1), U64Of(2), <<0, 0, 1, 0>>, U64Max}

\* an ASCII byte, a continuation byte, the lead byte of a two-byte
\* sequence and a byte that no UTF-8 sequence holds
PayloadBytes == {32, 128, 195, 255}

FrameDecoders == {"String", "Vec<TypeID>", "Vec<Instruction>", "Module"}

InitFrame ==
  /\ value = <<>>
  /\ buff = <<>>
  /\ result = NoResult
  /\ entity = "raw"
  /\ pc = "build"
  /\ oom \in BOOLEAN

PushHeader ==
  /\ pc = "build"
  /\ buff = <<>>
  /\ \E n \in Names, v \in Versions :
       /\ buff' = str_encode(n) \o Version_encode(v)
       /\ value' = Append(value, str_encode(n) \o Version_encode(v))
  /\ UNCHANGED <<result, entity, pc, oom>>

PushWord ==
  /\ pc = "build"
  /\ Len(value) < MaxPush
  /\ \E w \in Words :
       /\ buff' = buff \o u64_encode(w)
       /\ value' = Append(value, w)
  /\ UNCHANGED <<result, entity, pc, oom>>

PushByte ==
  /\ pc = "build"
  /\ Len(value) < MaxPush
  /\ \E b \in PayloadBytes :
       /\ buff' = buff \o <<b>>
       /\ value' = Append(value, <<b>>)
  /\ UNCHANGED <<result, entity, pc, oom>>

DecodeFrame ==
  /\ pc = "build"
  /\ \E D \in FrameDecoders :
       /\ result' = DecodeOf(D, buff)
       /\ entity' = D
  /\ pc' = "decoded"
  /\ UNCHANGED <<value, buff, oom>>

NextFrame ==
  \/ PushHeader
  \/ PushWord
  \/ PushByte
  \/ DecodeFrame

SpecFrame == InitFrame /\ [][NextFrame]_vars

\* the bytes that follow the 8-byte length of a frame
Payload == SubSeq(buff, 9, Len(buff))

\* C6: String decode returns Err(EOF) when fewer than 8 bytes are
\* available or fewer than L payload bytes remain, Err(InvalidString) when
\* L bytes remain but are not valid UTF-8, and otherwise the string of
\* exactly those L bytes, the cursor left behind them
C6_StringDecode ==
  (pc = "decoded" /\ entity = "String") =>
    IF Len(buff) < 8 THEN result.err = "EOF"
    ELSE LET L == from_le_bytes(SubSeq(buff, 1, 8))
         IN  IF NatLess(Len(Payload), L) THEN result.err = "EOF"
             ELSE IF ~IsUtf8(SubSeq(Payload, 1, AsNat(L)))
               THEN result.err = "InvalidString"
               ELSE result = Ok(SubSeq(Payload, 1, AsNat(L)),
                                SubSeq(Payload, AsNat(L) + 1, Len(Payload)))

C6_Witness ==
  /\ pc = "decoded"
  /\ entity = "String"
  /\ buff = u64_encode(U64Of(2)) \o <<195, 128>>
  /\ result = Ok(<<195, 128>>, <<>>)

\* C7: a Vec<TypeID> count that exceeds what the remaining bytes of the
\* cursor can supply (8 bytes an element) makes Vec::decode return Err(EOF)
C7_OversizedCount ==
  (/\ pc = "decoded"
   /\ entity = "Vec<TypeID>"
   /\ Len(buff) >= 8
   /\ NatLess(Len(Payload) \div 8, from_le_bytes(SubSeq(buff, 1, 8)))) =>
    result.err = "EOF"

\* C8: every decode of a finite byte string returns a value or one of the
\* three errors EOF, InvalidString, UnexpectedValue
C8_DecoderTotality ==
  pc = "decoded" => result.err \in {"Ok"} \cup DecodeError

----------------------------------------------------------------------------
(* SpecInt: a caller encodes fixed-width integers one after the other     *)
(* into one sink and decodes them back from a cursor over the sink        *)

\* integers encoded into one sink
MaxInts == 2

\* the integers of each type: zero, the extremes and values whose bytes
\* all differ; x holds an integer, w the limbs of a 32- or 64-bit word
WideInts == {"u32", "u64", "i64"}

IntOf(i) == IF i.ty \in WideInts THEN i.w ELSE i.x

Ints ==
  {[ty |-> "u16", x |-> x] : x \in {0, 258, 65535}} \cup
  {[ty |-> "u32", w |-> w] : w \in {<<0, 0>>, <<258, 772>>, <<65535, 65535>>}} \cup
  {[ty |-> "u64", w |-> w] : w \in {U64Of(1), <<258, 772, 1286, 1800>>, U64Max}} \cup
  {[ty |-> "i16", x |-> x] : x \in {-32768, -258, -1, 258}} \cup
  {[ty |-> "i32", x |-> x] : x \in {-2147483647, -66000, -1, 16909060}} \cup
  {[ty |-> "i64", w |-> w] :
     w \in {U64Max, <<0, 0, 0, 32768>>, <<258, 772, 1286, 1800>>}} \cup
  {[ty |-> "usize", x |-> x] : x \in {0, 66000, 2147483647}} \cup
  {[ty |-> "isize", x |-> x] : x \in {-66000, -1, 16909060}}

InitInt ==
  /\ value = <<>>
  /\ buff = <<>>
  /\ result = Ok(<<>>, <<>>)
  /\ entity = 0
  /\ pc = "build"
  /\ oom = FALSE

\* x.encode(&mut buff)
EncodeInt ==
  /\ pc = "build"
  /\ Len(value) < MaxInts
  /\ \E i \in Ints :
       /\ value' = Append(value, i)
       /\ buff' = buff \o EncodeOf(i.ty, IntOf(i))
       /\ result' = Ok(<<>>, buff')
  /\ UNCHANGED <<entity, pc, oom>>

\* T::decode(&mut cursor) of the next integer; entity counts the integers
\* read, result.rest is the cursor
DecodeInt ==
  /\ pc \in {"build", "decoded"}
  /\ entity < Len(value)
  /\ result.err = "Ok"
  /\ result' = DecodeOf(value[entity + 1].ty, result.rest)
  /\ entity' = entity + 1
  /\ pc' = "decoded"
  /\ UNCHANGED <<value, buff, oom>>

NextInt ==
  \/ EncodeInt
  \/ DecodeInt

SpecInt == InitInt /\ [][NextInt]_vars

\* bytes of each integer type
IntWidth ==
  [u16 |-> 2, u32 |-> 4, u64 |-> 8, i16 |-> 2, i32 |-> 4, i64 |-> 8,
   usize |-> 8, isize |-> 8]

\* (x div 256^i) mod 256, two's complement for the signed types; x is an
\* integer or the limbs of a 32- or 64-bit pattern
LittleEndianByte(i, n) ==
  IF i.ty \in WideInts
  THEN IF n % 2 = 0 THEN i.w[(n \div 2) + 1] % 256
       ELSE i.w[(n \div 2) + 1] \div 256
  ELSE IF n < 4 THEN (i.x \div (256 ^ n)) % 256
       ELSE IF i.x < 0 THEN 255 ELSE 0

RECURSIVE LittleEndian(_)
LittleEndian(is) ==
  IF is = <<>> THEN <<>>
  ELSE [n \in 1..IntWidth[is[1].ty] |-> LittleEndianByte(is[1], n - 1)] \o
       LittleEndian(Tail(is))

\* C11: encoding a u16/u32/u64/i16/i32/i64 x appends exactly 2/4/8 bytes,
\* the i-th being (x div 256^i) mod 256 (two's complement for signed);
\* decoding those bytes returns x; usize/isize encode to the 8 bytes of the
\* equal u64/i64
C11_LittleEndian ==
  /\ buff = LittleEndian(value)
  /\ (pc = "decoded" /\ value[entity].ty \notin {"usize", "isize"}) =>
       result = Ok(IntOf(value[entity]),
                   LittleEndian(SubSeq(value, entity + 1, Len(value))))

C11_Witness ==
  /\ pc = "decoded"
  /\ entity = 2
  /\ value[1] = [ty |-> "isize", x |-> -66000]
  /\ value[2] = [ty |-> "i32", x |-> -2147483647]
  /\ buff = <<48, 254, 254, 255, 255, 255, 255, 255, 1, 0, 0, 128>>
  /\ result = Ok(-2147483647, <<>>)

----------------------------------------------------------------------------
(* Values of several types encoded one after the other into one buffer,
   followed by bytes that belong to none of them, and decoded back to back
   from one cursor.  value holds the pairs <<type, value>>, entity the
   number of values decoded, result the last return value and the cursor. *)

MaxValues == 2

MaxRest == 1

CursorValues ==
  {<<"bool", TRUE>>, <<"i32", -66000>>} \cup
  {<<"String", n>> : n \in Names} \cup
  {<<"Option<TypeID>", o>> : o \in Options} \cup
  {<<"Vec<TypeID>", v>> : v \in {<<>>, <<U64Of(1), <<258, 772, 1286, 1800>>>>}} \cup
  {<<"ImmediateValue", ImmediateValue_from("F32", <<0, 32704>>)>>,
   <<"ImmediateValue", ImmediateValue_from("Bool", FALSE)>>} \cup
  {<<"Instruction", i>> : i \in LeafInstructions} \cup
  {<<"Function", f>> : f \in Functions}

RECURSIVE EncodeAll(_)
EncodeAll(vs) ==
  IF vs = <<>> THEN <<>>
  ELSE EncodeOf(vs[1][1], vs[1][2]) \o EncodeAll(Tail(vs))

InitCursor ==
  /\ value = <<>>
  /\ buff = <<>>
  /\ result = Ok(<<>>, <<>>)
  /\ entity = 0
  /\ pc = "build"
  /\ oom = FALSE

EncodeValue ==
  /\ pc = "build"
  /\ Len(value) < MaxValues
  /\ \E v \in CursorValues :
       /\ value' = Append(value, v)
       /\ buff' = buff \o EncodeOf(v[1], v[2])
       /\ result' = Ok(<<>>, buff')
  /\ UNCHANGED <<entity, pc, oom>>

\* bytes after the last encoded value
PushRest ==
  /\ pc \in {"build", "rest"}
  /\ Len(buff) < Len(EncodeAll(value)) + MaxRest
  /\ \E b \in {0, 1, 255} :
       /\ buff' = Append(buff, b)
       /\ result' = Ok(<<>>, buff')
  /\ pc' = "rest"
  /\ UNCHANGED <<value, entity, oom>>

DecodeValue ==
  /\ pc \in {"build", "rest", "decoded"}
  /\ entity < Len(value)
  /\ result.err = "Ok"
  /\ result' = DecodeOf(value[entity + 1][1], result.rest)
  /\ entity' = entity + 1
  /\ pc' = "decoded"
  /\ UNCHANGED <<value, buff, oom>>

NextCursor ==
  \/ EncodeValue
  \/ PushRest
  \/ DecodeValue

SpecCursor == InitCursor /\ [][NextCursor]_vars

\* C28: decoding from a cursor positioned on encode(v) ++ rest succeeds with
\* v and leaves the cursor exactly on rest, so that consecutive values are
\* decoded back to back from one buffer
C28_CursorAdvance ==
  pc = "decoded" =>
    /\ result.err = "Ok"
    /\ result.rest = SubSeq(buff, Len(EncodeAll(SubSeq(value, 1, entity))) + 1,
                            Len(buff))
    /\ result.val = value[entity][2]

C28_Witness ==
  /\ pc = "decoded"
  /\ entity = 2
  /\ value = <<(<<"Option<TypeID>", <<>>>>), (<<"String", <<195, 169>>>>)>>
  /\ result = Ok(<<195, 169>>, <<255>>)

----------------------------------------------------------------------------
(* Framing of the Module encoded under Spec *)

\* the 8 little-endian bytes of a length below 65536
LengthPrefix(n) == <<n % 256, n \div 256, 0, 0, 0, 0, 0, 0>>

\* the element encodings of a sequence, concatenated in index order
RECURSIVE ConcatEncoded(_, _)
ConcatEncoded(E, v) ==
  IF v = <<>> THEN <<>>
  ELSE ConcatEncoded(E, SubSeq(v, 1, Len(v) - 1)) \o EncodeOf(E, v[Len(v)])

\* C12: the encoding of a Vec of n elements is the 8-byte little-endian n
\* followed by the n element encodings in index order, and the encoding of
\* a string is its 8-byte little-endian byte length followed by its raw
\* bytes, with no other bytes
C12_Framing ==
  pc \in {"encoded", "decoded"} =>
    buff = LengthPrefix(Len(value.name)) \o value.name \o
           <<value.version.major, value.version.minor, value.version.patch>> \o
           LengthPrefix(Len(value.types)) \o
           ConcatEncoded("Type", value.types) \o
           LengthPrefix(Len(value.imports)) \o
           ConcatEncoded("ImportModule", value.imports) \o
           LengthPrefix(Len(value.globals)) \o
           ConcatEncoded("Global", value.globals) \o
           LengthPrefix(Len(value.functions)) \o
           ConcatEncoded("Function", value.functions) \o
           LengthPrefix(Len(value.exports)) \o
           ConcatEncoded("Export", value.exports)

C12_Witness ==
  /\ pc = "encoded"
  /\ value.name = <<195, 169>>
  /\ Len(value.types) = 2
  /\ SubSeq(buff, 1, 10) = <<2, 0, 0, 0, 0, 0, 0, 0, 195, 169>>
  /\ SubSeq(buff, 14, 21) = <<2, 0, 0, 0, 0, 0, 0, 0>>

----------------------------------------------------------------------------
(* common.rs: Identifier.  A &str is the sequence of its chars (code
   points); an Identifier is its byte vector. *)

MAX_LENGTH == 64

is_ascii(c) == c < 128

\* str::len: the length of a &str in UTF-8 bytes
RECURSIVE str_len(_)
str_len(s) ==
  IF s = <<>> THEN 0
  ELSE (IF s[1] < 128 THEN 1 ELSE IF s[1] < 2048 THEN 2
        ELSE IF s[1] < 65536 THEN 3 ELSE 4) + str_len(Tail(s))

\* Identifier::set: the returned bool and the vector afterwards
Identifier_set_clearfirst(vec, s) ==
  IF str_len(s) > MAX_LENGTH THEN [ret |-> FALSE, vec |-> vec]
  ELSE IF \E i \in 1..Len(s) : ~is_ascii(s[i]) THEN [ret |-> FALSE, vec |-> <<>>]
  ELSE [ret |-> TRUE, vec |-> [i \in 1..Len(s) |-> s[i] % 256]]

Identifier_set(vec, s) ==
  IF str_len(s) > MAX_LENGTH THEN [ret |-> FALSE, vec |-> vec]
  ELSE IF \E i \in 1..Len(s) : ~is_ascii(s[i]) THEN [ret |-> FALSE, vec |-> vec]
  ELSE [ret |-> TRUE, vec |-> [i \in 1..Len(s) |-> s[i] % 256]]

Identifier_append_full(vec, c) ==
  IF Len(vec) <= MAX_LENGTH /\ is_ascii(c)
  THEN [ret |-> TRUE, vec |-> Append(vec, c % 256)]
  ELSE [ret |-> FALSE, vec |-> vec]

\* Identifier::append
Identifier_append(vec, c) ==
  IF Len(vec) < MAX_LENGTH /\ is_ascii(c)
  THEN [ret |-> TRUE, vec |-> Append(vec, c % 256)]
  ELSE [ret |-> FALSE, vec |-> vec]

\* impl From<&str> for Identifier: the bool of set is dropped
Identifier_from(s) == Identifier_set(<<>>, s).vec

\* PartialEq: equality of the two str views, length then bytes
Identifier_eq(a, b) == Len(a) = Len(b) /\ \A i \in 1..Len(a) : a[i] = b[i]

Identifier_cmp_shortlex(a, b) ==
  LET D == {i \in 1..Len(a) : i <= Len(b) /\ a[i] # b[i]}
  IN  IF Len(a) < Len(b) THEN "Less"
      ELSE IF Len(a) > Len(b) THEN "Greater"
      ELSE IF D = {} THEN "Equal"
      ELSE IF \E i \in D : a[i] < b[i] /\ \A j \in D : i <= j THEN "Less"
      ELSE "Greater"

\* Ord: str::cmp, the first differing byte of the common prefix decides,
\* then the lengths
Identifier_cmp(a, b) ==
  LET D == {i \in 1..Len(a) : i <= Len(b) /\ a[i] # b[i]}
  IN  IF D # {}
      THEN IF \E i \in D : a[i] < b[i] /\ \A j \in D : i <= j THEN "Less"
           ELSE "Greater"
      ELSE IF Len(a) < Len(b) THEN "Less"
      ELSE IF Len(a) = Len(b) THEN "Equal"
      ELSE "Greater"

\* arguments: 'a' and U+00E9; texts up to one byte over the maximum
Chars == {97, 233}

Texts ==
  {<<>>, <<97, 98>>, <<233>>, <<97, 233>>,
   [i \in 1..MAX_LENGTH |-> 98], [i \in 1..(MAX_LENGTH + 1) |-> 98]}

\* value is the Identifier under test, entity one built by From, buff the
\* last argument, result the last return value
InitIdent ==
  /\ value = <<>>
  /\ entity = <<>>
  /\ buff = <<>>
  /\ result = [ret |-> TRUE]
  /\ pc = "new"
  /\ oom = FALSE

CallSet ==
  \E s \in Texts :
    /\ buff' = s
    /\ value' = Identifier_set(value, s).vec
    /\ result' = [ret |-> Identifier_set(value, s).ret]
    /\ pc' = "set"
    /\ UNCHANGED <<entity, oom>>

CallAppend ==
  \E c \in Chars :
    /\ buff' = <<c>>
    /\ value' = Identifier_append(value, c).vec
    /\ result' = [ret |-> Identifier_append(value, c).ret]
    /\ pc' = "append"
    /\ UNCHANGED <<entity, oom>>

CallFrom ==
  \E s \in Texts :
    /\ buff' = s
    /\ entity' = Identifier_from(s)
    /\ result' = [ret |-> TRUE]
    /\ pc' = "from"
    /\ UNCHANGED <<value, oom>>

CallCmp ==
  /\ result' = [eq |-> Identifier_eq(value, entity),
                ord |-> Identifier_cmp(value, entity)]
  /\ pc' = "cmp"
  /\ UNCHANGED <<value, entity, buff, oom>>

NextIdent ==
  \/ CallSet
  \/ CallAppend
  \/ CallFrom
  \/ CallCmp

SpecIdent == InitIdent /\ [][NextIdent]_vars

\* C13: after every set or append the Identifier holds at most 64 bytes,
\* all below 128; set returns false for a text longer than 64 bytes or with
\* a non-ASCII char, and append returns false when the Identifier already
\* held 64 bytes or the char is not ASCII
C13_IdentifierBounds ==
  [][/\ Len(value') <= 64
     /\ \A i \in 1..Len(value') : value'[i] < 128
     /\ (pc' = "set" /\ (str_len(buff') > 64 \/ \E i \in 1..Len(buff') : buff'[i] >= 128))
          => ~result'.ret
     /\ (pc' = "append" /\ (Len(value) = 64 \/ buff'[1] >= 128))
          => ~result'.ret]_vars

C13_Witness ==
  /\ pc = "append"
  /\ Len(value) = 64
  /\ buff = <<97>>
  /\ ~result.ret

\* C14: constructing an Identifier from a text that is not ASCII or is
\* longer than 64 bytes reports a failure, and an Identifier built from a
\* text never silently differs from that text
C14_FromValidates ==
  pc = "from" /\ result.ret => entity = buff

\* a is below b in lexicographic byte order: they agree on a prefix after
\* which a ends first or holds the smaller byte
LexLess(a, b) ==
  \E k \in 0..Len(a) :
    /\ k < Len(b)
    /\ SubSeq(a, 1, k) = SubSeq(b, 1, k)
    /\ (k < Len(a) => a[k + 1] < b[k + 1])

\* C15: two Identifiers are equal exactly when their bytes are equal, and
\* a < b exactly when a precedes b in lexicographic byte order, a proper
\* prefix sorting before its extensions
C15_IdentifierOrder ==
  pc = "cmp" =>
    /\ result.eq <=> (value = entity)
    /\ (result.ord = "Less") <=> LexLess(value, entity)
    /\ (result.ord = "Greater") <=> LexLess(entity, value)

C15_Witness ==
  /\ pc = "cmp"
  /\ value = <<97, 97, 97>>
  /\ entity = <<97, 98>>
  /\ result.ord = "Less"

\* C29: a set or append that returns false leaves the bytes of the
\* Identifier as they were; a set that returns true leaves exactly the
\* bytes of the given text, and an append that returns true leaves the old
\* bytes followed by the new char
C29_RejectedUpdate ==
  [][/\ pc' = "set" =>
          IF result'.ret THEN value' = buff' ELSE value' = value
     /\ pc' = "append" =>
          IF result'.ret THEN value' = value \o buff' ELSE value' = value]_vars

C29_Witness ==
  /\ pc = "set"
  /\ buff = <<97, 233>>
  /\ ~result.ret
  /\ value = <<97, 98, 97>>

----------------------------------------------------------------------------
(* common.rs: the Operator enum, the lexer lookup tables and the Pratt
   precedence table.  A text is the sequence of its characters. *)

Operator ==
  <<"Not", "And", "Xor", "Or", "As",
    "DoubleColon", "RightArrow", "AssignAdd", "AssignSub", "AssignMul",
    "AssignDiv", "AssignRem", "Equal", "NotEqual", "GreaterOrEqual",
    "LesserOrEqual", "Greater", "Lesser", "Assign", "Add",
    "Sub", "Mul", "Div", "Rem", "AddressOf",
    "Dereference", "Comma", "Colon", "Semi", "LeftParen",
    "RightParen", "LeftBracket", "RightBracket">>

IDENTIFIER_VALUES ==
  <<
    [text |-> <<"i", "m", "p", "o", "r", "t">>, data |-> "Keyword::Import"],
    [text |-> <<"e", "x", "p", "o", "r", "t">>, data |-> "Keyword::Export"],
    [text |-> <<"g", "l", "o", "b", "a", "l">>, data |-> "Keyword::Global"],
    [text |-> <<"s", "t", "r", "u", "c", "t">>, data |-> "Keyword::Struct"],
    [text |-> <<"a", "l", "i", "a", "s">>, data |-> "Keyword::Alias"],
    [text |-> <<"f", "a", "l", "s", "e">>, data |-> "Constant::Bool(false)"],
    [text |-> <<"t", "r", "u", "e">>, data |-> "Constant::Bool(true)"],
    [text |-> <<"t", "y", "p", "e">>, data |-> "Keyword::Type"],
    [text |-> <<"e", "l", "s", "e">>, data |-> "Keyword::Else"],
    [text |-> <<"n", "u", "l", "l">>, data |-> "Constant::NullPointer"],
    [text |-> <<"n", "a", "n">>, data |-> "Constant::Number(NaN)"],
    [text |-> <<"i", "n", "f">>, data |-> "Constant::Number(Inf)"],
    [text |-> <<"l", "e", "t">>, data |-> "Keyword::Let"],
    [text |-> <<"n", "o", "t">>, data |-> "Operator::Not"],
    [text |-> <<"a", "n", "d">>, data |-> "Operator::And"],
    [text |-> <<"x", "o", "r">>, data |-> "Operator::Xor"],
    [text |-> <<"n", "s">>, data |-> "Keyword::Namespace"],
    [text |-> <<"f", "n">>, data |-> "Keyword::Function"],
    [text |-> <<"i", "f">>, data |-> "Keyword::If"],
    [text |-> <<"o", "r">>, data |-> "Operator::Or"],
    [text |-> <<"a", "s">>, data |-> "Operator::As"]
  >>

SYM_OPERATOR_VALUES_unsorted ==
  <<
    [text |-> <<":", ":">>, op |-> "DoubleColon"],
    [text |-> <<"-", ">">>, op |-> "RightArrow"],
    [text |-> <<"+", "=">>, op |-> "AssignAdd"],
    [text |-> <<"-", "=">>, op |-> "AssignSub"],
    [text |-> <<"*", "=">>, op |-> "AssignMul"],
    [text |-> <<"/", "=">>, op |-> "AssignDiv"],
    [text |-> <<"%", "=">>, op |-> "AssignRem"],
    [text |-> <<"=">>, op |-> "Assign"],
    [text |-> <<"=", "=">>, op |-> "Equal"],
    [text |-> <<"!", "=">>, op |-> "NotEqual"],
    [text |-> <<">", "=">>, op |-> "GreaterOrEqual"],
    [text |-> <<"<", "=">>, op |-> "LesserOrEqual"],
    [text |-> <<">">>, op |-> "Greater"],
    [text |-> <<"<">>, op |-> "Lesser"],
    [text |-> <<"+">>, op |-> "Add"],
    [text |-> <<"-">>, op |-> "Sub"],
    [text |-> <<"*">>, op |-> "Mul"],
    [text |-> <<"/">>, op |-> "Div"],
    [text |-> <<"%">>, op |-> "Rem"],
    [text |-> <<"^">>, op |-> "AddressOf"],
    [text |-> <<"@">>, op |-> "Dereference"],
    [text |-> <<",">>, op |-> "Comma"],
    [text |-> <<":">>, op |-> "Colon"],
    [text |-> <<";">>, op |-> "Semi"],
    [text |-> <<"(">>, op |-> "LeftParen"],
    [text |-> <<")">>, op |-> "RightParen"],
    [text |-> <<"{">>, op |-> "LeftBracket"],
    [text |-> <<"}">>, op |-> "RightBracket"]
  >>

SYM_OPERATOR_VALUES ==
  <<
    [text |-> <<":", ":">>, op |-> "DoubleColon"],
    [text |-> <<"-", ">">>, op |-> "RightArrow"],
    [text |-> <<"+", "=">>, op |-> "AssignAdd"],
    [text |-> <<"-", "=">>, op |-> "AssignSub"],
    [text |-> <<"*", "=">>, op |-> "AssignMul"],
    [text |-> <<"/", "=">>, op |-> "AssignDiv"],
    [text |-> <<"%", "=">>, op |-> "AssignRem"],
    [text |-> <<"=", "=">>, op |-> "Equal"],
    [text |-> <<"!", "=">>, op |-> "NotEqual"],
    [text |-> <<">", "=">>, op |-> "GreaterOrEqual"],
    [text |-> <<"<", "=">>, op |-> "LesserOrEqual"],
    [text |-> <<">">>, op |-> "Greater"],
    [text |-> <<"<">>, op |-> "Lesser"],
    [text |-> <<"=">>, op |-> "Assign"],
    [text |-> <<"+">>, op |-> "Add"],
    [text |-> <<"-">>, op |-> "Sub"],
    [text |-> <<"*">>, op |-> "Mul"],
    [text |-> <<"/">>, op |-> "Div"],
    [text |-> <<"%">>, op |-> "Rem"],
    [text |-> <<"^">>, op |-> "AddressOf"],
    [text |-> <<"@">>, op |-> "Dereference"],
    [text |-> <<",">>, op |-> "Comma"],
    [text |-> <<":">>, op |-> "Colon"],
    [text |-> <<";">>, op |-> "Semi"],
    [text |-> <<"(">>, op |-> "LeftParen"],
    [text |-> <<")">>, op |-> "RightParen"],
    [text |-> <<"{">>, op |-> "LeftBracket"],
    [text |-> <<"}">>, op |-> "RightBracket"]
  >>

BINARY_PRECEDENCES ==
  << <<"And", 20>>, <<"Or", 20>>, <<"Xor", 20>>,
     <<"Equal", 30>>, <<"NotEqual", 30>>, <<"Lesser", 30>>,
     <<"Greater", 30>>, <<"LesserOrEqual", 30>>, <<"GreaterOrEqual", 30>>,
     <<"Add", 50>>, <<"Sub", 50>>,
     <<"Mul", 60>>, <<"Div", 60>>, <<"Rem", 60>>,
     <<"LeftParen", 70>> >>

\* the loop of get_binary_precedence from index i on; indexing past the end
\* of the table panics
RECURSIVE get_binary_precedence_loop(_, _)
get_binary_precedence_loop(operator, i) ==
  IF i >= Len(BINARY_PRECEDENCES) THEN Err("Panic", <<>>)
  ELSE IF as_u8(Operator, BINARY_PRECEDENCES[i + 1][1]) = as_u8(Operator, operator)
       THEN Ok(BINARY_PRECEDENCES[i + 1][2], <<>>)
  ELSE get_binary_precedence_loop(operator, i + 1)

get_binary_precedence(operator) == get_binary_precedence_loop(operator, 0)

LexTable(t) ==
  IF t = "IDENTIFIER_VALUES" THEN IDENTIFIER_VALUES ELSE SYM_OPERATOR_VALUES

\* value is the operator looked up or the table scanned, entity the two
\* positions scanned and buff the texts found there
InitLex ==
  /\ value = ""
  /\ entity = <<>>
  /\ buff = <<>>
  /\ result = Ok(<<>>, <<>>)
  /\ pc = "start"
  /\ oom = FALSE

LookupPrecedence ==
  \E operator \in {Operator[k] : k \in 1..Len(Operator)} :
    /\ pc = "start"
    /\ value' = operator
    /\ result' = get_binary_precedence(operator)
    /\ pc' = "precedence"
    /\ UNCHANGED <<entity, buff, oom>>

\* a scan of a table in index order passes position i before position j
ScanPair ==
  \E t \in {"IDENTIFIER_VALUES", "SYM_OPERATOR_VALUES"} :
    \E j \in 1..Len(LexTable(t)) :
      \E i \in 1..(j - 1) :
        /\ pc # "pair"
        /\ value' = t
        /\ entity' = <<i, j>>
        /\ buff' = <<LexTable(t)[i].text, LexTable(t)[j].text>>
        /\ pc' = "pair"
        /\ UNCHANGED <<result, oom>>

NextLex ==
  \/ LookupPrecedence
  \/ ScanPair

SpecLex == InitLex /\ [][NextLex]_vars

ListedPrecedence ==
  [And |-> 20, Or |-> 20, Xor |-> 20,
   Equal |-> 30, NotEqual |-> 30, Lesser |-> 30, Greater |-> 30,
   LesserOrEqual |-> 30, GreaterOrEqual |-> 30,
   Add |-> 50, Sub |-> 50, Mul |-> 60, Div |-> 60, Rem |-> 60,
   LeftParen |-> 70]

\* C16: get_binary_precedence is total over Operator: it returns the listed
\* precedence of a listed operator, and for an operator that is not listed
\* it terminates and returns the "no precedence" sentinel 0
C16_PrecedenceTotal ==
  pc = "precedence" =>
    /\ result.err = "Ok"
    /\ result.val = (IF value \in DOMAIN ListedPrecedence
                     THEN ListedPrecedence[value] ELSE 0)

IsProperPrefix(a, b) == Len(a) < Len(b) /\ SubSeq(b, 1, Len(a)) = a

\* C17: in both lexer tables the text at position i is at least as long as
\* the text at every later position j, so a first-match scan never selects
\* an entry that is a proper prefix of a later entry
C17_LongestFirst ==
  pc = "pair" =>
    /\ Len(buff[1]) >= Len(buff[2])
    /\ ~IsProperPrefix(buff[1], buff[2])

C17_Witness ==
  /\ pc = "pair"
  /\ value = "SYM_OPERATOR_VALUES"
  /\ entity = <<8, 14>>
  /\ buff = <<(<<"=", "=">>), (<<"=">>)>>

----------------------------------------------------------------------------
(* analyzer/mod.rs: the Analyzer.  value is the Analyzer, buff the messages
   held by SESSION, result the last return value (Panic for a failed
   assert! or expect), pc the last method called and entity the number of
   calls with the arguments of the last one.  A GlobalKey is a position in
   the item arena; the arena and the binding tables follow the context
   graph of the specification. *)

MaxCalls == 4

\* Context::default(): an arena holding the root module `lib`
Context_default ==
  [items |-> <<[kind |-> "Module", name |-> "lib", data |-> <<>>,
                local_bindings |-> {}]>>,
   anon_types |-> {},
   lib_mod |-> 1]

\* items handed to create_item: a module, a global, an anonymous type and a
\* type whose TypeData is not anonymous
NewItems ==
  {[kind |-> "Module", name |-> "m", data |-> <<>>, local_bindings |-> {}],
   [kind |-> "Global", name |-> "", data |-> <<>>, local_bindings |-> {}],
   [kind |-> "Type", name |-> "", data |-> <<"Pointer">>, local_bindings |-> {}],
   [kind |-> "Type", name |-> "", data |-> <<"Structure">>, local_bindings |-> {}]}

Idents == {<<97>>, <<98>>}

Returned == result.err # "Panic" /\ entity.n < MaxCalls

Called(name, args) == [n |-> entity.n + 1, call |-> <<name>> \o args]

\* Analyzer::new
InitAnalyzer ==
  /\ value = [context |-> Context_default,
              active_modules |-> <<Context_default.lib_mod>>,
              local_context |-> <<>>]
  /\ buff = <<>>
  /\ result = Ok(<<>>, <<>>)
  /\ entity = [n |-> 0, call |-> <<"new">>]
  /\ pc = "new"
  /\ oom = FALSE

\* the keys offered to push_active_module are the modules of the arena
push_active_module_under ==
  /\ Returned
  /\ \E key \in 1..Len(value.context.items) :
       /\ value.context.items[key].kind = "Module"
       /\ value' = [value EXCEPT !.active_modules =
                           SubSeq(@, 1, Len(@) - 1) \o <<key, @[Len(@)]>>]
       /\ entity' = Called("push_active_module", <<key>>)
  /\ result' = Ok(<<>>, <<>>)
  /\ pc' = "push_active_module"
  /\ UNCHANGED <<buff, oom>>

push_active_module ==
  /\ Returned
  /\ \E key \in 1..Len(value.context.items) :
       /\ value.context.items[key].kind = "Module"
       /\ value' = [value EXCEPT !.active_modules = Append(@, key)]
       /\ entity' = Called("push_active_module", <<key>>)
  /\ result' = Ok(<<>>, <<>>)
  /\ pc' = "push_active_module"
  /\ UNCHANGED <<buff, oom>>

pop_active_module_unchecked ==
  /\ Returned
  /\ value' = [value EXCEPT !.active_modules = SubSeq(@, 1, Len(@) - 1)]
  /\ result' = Ok(value.active_modules[Len(value.active_modules)], <<>>)
  /\ entity' = Called("pop_active_module", <<>>)
  /\ pc' = "pop_active_module"
  /\ UNCHANGED <<buff, oom>>

pop_active_module ==
  /\ Returned
  /\ IF Len(value.active_modules) > 1
     THEN /\ value' = [value EXCEPT !.active_modules = SubSeq(@, 1, Len(@) - 1)]
          /\ result' = Ok(value.active_modules[Len(value.active_modules)], <<>>)
     ELSE /\ value' = value
          /\ result' = Err("Panic", <<>>)
  /\ entity' = Called("pop_active_module", <<>>)
  /\ pc' = "pop_active_module"
  /\ UNCHANGED <<buff, oom>>

create_local_context_replace ==
  /\ Returned
  /\ value' = [value EXCEPT !.local_context = <<"LocalContext::default">>]
  /\ result' = Ok(<<>>, <<>>)
  /\ entity' = Called("create_local_context", <<>>)
  /\ pc' = "create_local_context"
  /\ UNCHANGED <<buff, oom>>

\* replace stores the new LocalContext, expect_none panics on the old one
create_local_context ==
  /\ Returned
  /\ value' = [value EXCEPT !.local_context = <<"LocalContext::default">>]
  /\ result' = IF value.local_context = <<>> THEN Ok(<<>>, <<>>)
               ELSE Err("Panic", <<>>)
  /\ entity' = Called("create_local_context", <<>>)
  /\ pc' = "create_local_context"
  /\ UNCHANGED <<buff, oom>>

remove_local_context ==
  /\ Returned
  /\ value' = [value EXCEPT !.local_context = <<>>]
  /\ result' = IF value.local_context # <<>> THEN Ok(value.local_context[1], <<>>)
               ELSE Err("Panic", <<>>)
  /\ entity' = Called("remove_local_context", <<>>)
  /\ pc' = "remove_local_context"
  /\ UNCHANGED <<buff, oom>>

\* get_local_context and get_local_context_mut
get_local_context ==
  /\ Returned
  /\ result' = IF value.local_context # <<>> THEN Ok(value.local_context[1], <<>>)
               ELSE Err("Panic", <<>>)
  /\ entity' = Called("get_local_context", <<>>)
  /\ pc' = "get_local_context"
  /\ UNCHANGED <<value, buff, oom>>

get_active_module(an) == an.context.items[an.active_modules[Len(an.active_modules)]]

\* TypeData::is_anon: a pointer or function type is anonymous, a structure
\* is declared under a name
is_anon(td) == td \in {"Pointer", "Function"}

get_active_module_key ==
  /\ Returned
  /\ result' = Ok(value.active_modules[Len(value.active_modules)], <<>>)
  /\ entity' = Called("get_active_module_key", <<>>)
  /\ pc' = "get_active_module_key"
  /\ UNCHANGED <<value, buff, oom>>

error_as_warning(messages, origin, message) ==
  Append(messages, [kind |-> "Warning", origin |-> origin, message |-> message])

\* Analyzer::error: SESSION.message(Some(origin), MessageKind::Error, message)
error(messages, origin, message) ==
  Append(messages, [kind |-> "Error", origin |-> origin, message |-> message])

\* the key create_item gives to new_item: the interned key of an anonymous
\* type already known, otherwise the next key of the arena
create_item_key_fresh(an, new_item) == Len(an.context.items) + 1

create_item_key(an, new_item) ==
  IF /\ new_item.kind = "Type"
     /\ new_item.data # <<>>
     /\ is_anon(new_item.data[1])
     /\ \E e \in an.context.anon_types : e.td = new_item.data[1]
  THEN (CHOOSE e \in an.context.anon_types : e.td = new_item.data[1]).key
  ELSE Len(an.context.items) + 1

\* the Analyzer after create_item has inserted new_item under key and bound
\* identifier to it in the active module
create_item_bound_noinsert(an, identifier, new_item, key, origin) ==
  LET active == an.active_modules[Len(an.active_modules)]
      items == IF key > Len(an.context.items)
               THEN an.context.items ELSE an.context.items
      anon_types == IF key > Len(an.context.items) /\ new_item.kind = "Type"
                       /\ new_item.data # <<>> /\ is_anon(new_item.data[1])
                    THEN an.context.anon_types \cup
                           {[td |-> new_item.data[1], key |-> key]}
                    ELSE an.context.anon_types
      bound == {b \in items[active].local_bindings : b.id # identifier} \cup
                 {[id |-> identifier, key |-> key, loc |-> origin]}
  IN  [an EXCEPT !.context.items = [items EXCEPT ![active].local_bindings = bound],
                 !.context.anon_types = anon_types]

create_item_bound(an, identifier, new_item, key, origin) ==
  LET active == an.active_modules[Len(an.active_modules)]
      items == IF key > Len(an.context.items)
               THEN Append(an.context.items, new_item) ELSE an.context.items
      anon_types == IF key > Len(an.context.items) /\ new_item.kind = "Type"
                       /\ new_item.data # <<>> /\ is_anon(new_item.data[1])
                    THEN an.context.anon_types \cup
                           {[td |-> new_item.data[1], key |-> key]}
                    ELSE an.context.anon_types
      bound == {b \in items[active].local_bindings : b.id # identifier} \cup
                 {[id |-> identifier, key |-> key, loc |-> origin]}
  IN  [an EXCEPT !.context.items = [items EXCEPT ![active].local_bindings = bound],
                 !.context.anon_types = anon_types]

create_item ==
  /\ Returned
  /\ \E identifier \in Idents, new_item \in NewItems :
       LET origin == entity.n + 1
           shadowed == {b \in get_active_module(value).local_bindings :
                          b.id = identifier}
           key == create_item_key(value, new_item)
       IN  /\ entity' = Called("create_item", <<identifier, new_item.kind, new_item.data>>)
           /\ IF \E b \in shadowed : b.key > Len(value.context.items)
              THEN /\ result' = Err("Panic", <<>>)
                   /\ UNCHANGED <<value, buff>>
              ELSE /\ buff' = IF shadowed = {} THEN buff
                              ELSE error(buff, origin,
                                     [new_kind |-> new_item.kind,
                                      identifier |-> identifier,
                                      shadowed_kind |->
                                        value.context.items[(CHOOSE b \in shadowed : TRUE).key].kind,
                                      canonical_name |-> get_active_module(value).name,
                                      shadowed_location |->
                                        (CHOOSE b \in shadowed : TRUE).loc])
                   /\ value' = create_item_bound(value, identifier, new_item, key, origin)
                   /\ result' = Ok(key, <<>>)
  /\ pc' = "create_item"
  /\ UNCHANGED oom

NextAnalyzer ==
  \/ push_active_module
  \/ pop_active_module
  \/ create_local_context
  \/ remove_local_context
  \/ get_local_context
  \/ get_active_module_key
  \/ create_item

SpecAnalyzer == InitAnalyzer /\ [][NextAnalyzer]_vars

\* C18: the active-module stack starts as [lib]; after every push and pop
\* it is non-empty with the lib key at the bottom, and a pop at length <= 1
\* is fatal and removes nothing
C18_RootModule ==
  /\ value.active_modules = <<value.context.lib_mod>>
  /\ [][/\ Len(value'.active_modules) >= 1
        /\ value'.active_modules[1] = value'.context.lib_mod
        /\ (pc' = "pop_active_module" /\ Len(value.active_modules) <= 1)
             => /\ result'.err = "Panic"
                /\ value'.active_modules = value.active_modules]_vars

C18_Witness ==
  /\ pc = "pop_active_module"
  /\ result.err = "Panic"
  /\ entity.n = 3
  /\ value.active_modules = <<1>>

\* C19: at most one LocalContext exists; creating one while one exists is
\* fatal, removing or getting one while none exists is fatal, and the
\* creates and removes that return alternate, starting with a create
C19_LocalContextSlot ==
  /\ value.local_context = <<>>
  /\ [][/\ Len(value'.local_context) <= 1
        /\ pc' = "create_local_context" =>
             /\ value.local_context # <<>> => result'.err = "Panic"
             /\ result'.err = "Ok" =>
                  value.local_context = <<>> /\ Len(value'.local_context) = 1
        /\ pc' = "remove_local_context" =>
             /\ value.local_context = <<>> => result'.err = "Panic"
             /\ result'.err = "Ok" =>
                  Len(value.local_context) = 1 /\ value'.local_context = <<>>
        /\ (pc' = "get_local_context" /\ value.local_context = <<>>)
             => result'.err = "Panic"]_vars

C19_Witness ==
  /\ pc = "create_local_context"
  /\ result.err = "Panic"
  /\ entity.n = 2

C21_InterningAll ==
  [][(pc' = "create_item" /\ result'.err = "Ok" /\ entity'.call[3] = "Type") =>
       /\ \A k \in 1..Len(value.context.items) :
            IF /\ value.context.items[k].kind = "Type"
               /\ value.context.items[k].data = entity'.call[4]
            THEN /\ result'.val = k
                 /\ Len(value'.context.items) = Len(value.context.items)
            ELSE result'.val # k
       /\ \A e \in value'.context.anon_types :
            /\ e.key \in 1..Len(value'.context.items)
            /\ value'.context.items[e.key].data = <<e.td>>]_vars

\* C21 amended: the same, for an earlier created Type item whose TypeData
\* is anonymous; a TypeData that is not anonymous is never interned
C21_Interning ==
  [][(pc' = "create_item" /\ result'.err = "Ok" /\ entity'.call[3] = "Type") =>
       /\ \A k \in 1..Len(value.context.items) :
            IF /\ value.context.items[k].kind = "Type"
               /\ value.context.items[k].data = entity'.call[4]
               /\ entity'.call[4][1] \in {"Pointer", "Function"}
            THEN /\ result'.val = k
                 /\ Len(value'.context.items) = Len(value.context.items)
            ELSE result'.val # k
       /\ \A e \in value'.context.anon_types :
            /\ e.key \in 1..Len(value'.context.items)
            /\ value'.context.items[e.key].data = <<e.td>>]_vars

C21_Witness ==
  /\ pc = "create_item"
  /\ entity = [n |-> 2, call |-> <<"create_item", <<98>>, "Type", <<"Pointer">>>>]
  /\ result = Ok(2, <<>>)
  /\ Len(value.context.items) = 2
  /\ value.context.anon_types = {[td |-> "Pointer", key |-> 2]}

\* C22: once create_item has bound an identifier in a module, a later
\* create_item of the same identifier there leaves the lookup of the
\* identifier at the first key, and is reported as a shadow, the reports
\* appearing in the order of the binds
C22_FirstBind ==
  [][(pc' = "create_item" /\ result'.err = "Ok") =>
       \A b \in get_active_module(value).local_bindings :
         b.id = entity'.call[2] =>
           /\ \A b2 \in get_active_module(value').local_bindings :
                b2.id = b.id => b2.key = b.key
           /\ Len(buff') = Len(buff) + 1
           /\ SubSeq(buff', 1, Len(buff)) = buff
           /\ buff'[Len(buff')].origin = entity'.n]_vars

C30_StackLifo ==
  [][/\ pc' = "push_active_module" =>
          value'.active_modules = Append(value.active_modules, entity'.call[2])
     /\ (pc' = "pop_active_module" /\ result'.err = "Ok") =>
          /\ result'.val = value.active_modules[Len(value.active_modules)]
          /\ Append(value'.active_modules, result'.val) = value.active_modules
     /\ pc' = "get_active_module_key" =>
          /\ result'.val = value.active_modules[Len(value.active_modules)]
          /\ value' = value
     /\ (pc' = "create_item" /\ result'.err = "Ok") =>
          /\ value'.active_modules = value.active_modules
          /\ \E b \in value'.context.items[value.active_modules[Len(value.active_modules)]].local_bindings :
               b.id = entity'.call[2] /\ b.key = result'.val
          /\ \A k \in 1..Len(value.context.items) :
               k # value.active_modules[Len(value.active_modules)] =>
                 value'.context.items[k].local_bindings =
                   value.context.items[k].local_bindings]_vars

C30_Witness ==
  /\ pc = "pop_active_module"
  /\ result = Ok(2, <<>>)
  /\ value.active_modules = <<1>>
  /\ entity.n = 3

----------------------------------------------------------------------------
(* The resolution engine over the Pseudonyms of support_structures.rs.  The
   engine follows section 4.5 of the specification: a fixed-point sweep
   over a work queue, Alias chains followed through a stack of in-progress
   Pseudonyms, and a stuck pass that fails what is left.  value is the
   context and the engine, buff the diagnostics, entity the number of
   passes started and pc the phase.  Key 1 is the module `lib`, key 2 a
   Global bound as `x`, and key 2 + p the Pseudonym item p. *)

MaxPseudonyms == 3

PseudonymKind == <<"Alias", "Export">>

\* a Pseudonym awaiting resolution, with a one-component Path payload
Pseudonym(kind, new_name, path, origin) ==
  [destination_namespace |-> 1, kind |-> kind,
   payload |-> [k |-> "Path", path |-> path],
   new_name |-> new_name, relative_to |-> 1, origin |-> origin,
   state |-> "Pending"]

\* the key bound to a name in a binding table, 0 when there is none
Lookup(bindings, name) ==
  IF \E b \in bindings : b.name = name
  THEN (CHOOSE b \in bindings : b.name = name).key
  ELSE 0

InState(ctx, st) == {p \in 1..Len(ctx.ps) : ctx.ps[p].state = st}

SetState(ps, S, st) ==
  [p \in 1..Len(ps) |-> IF p \in S THEN [ps[p] EXCEPT !.state = st] ELSE ps[p]]

\* one diagnostic per origin, in the order given
RECURSIVE Diagnostics(_, _)
Diagnostics_first(origins, why) ==
  IF origins = <<>> THEN <<>>
  ELSE <<[kind |-> "Error", origin |-> origins[1], message |-> why]>>

Diagnostics(origins, why) ==
  IF origins = <<>> THEN <<>>
  ELSE <<[kind |-> "Error", origin |-> origins[1], message |-> why]>> \o
       Diagnostics(Tail(origins), why)

\* the context after the Pseudonyms S have failed for good: they and the
\* placeholders bound to them are removed
HardFail(ctx, S) ==
  [ctx EXCEPT !.ps = SetState(@, S, "HardFail"),
              !.local_bindings = {b \in @ : \A p \in S : b.key # 2 + p},
              !.stack = <<>>]

InitResolve ==
  /\ value = [ps |-> <<>>,
              local_bindings |-> {[name |-> "x", key |-> 2]},
              export_bindings |-> {[name |-> "x", key |-> 2]},
              queue |-> <<>>, stack |-> <<>>, resolved |-> 0]
  /\ buff = <<>>
  /\ result = Ok(<<>>, <<>>)
  /\ entity = 0
  /\ pc = "collect"
  /\ oom = FALSE

\* the declaration pass leaves a Pseudonym for a name it cannot resolve; an
\* Alias is bound under its new name as a placeholder
CollectPseudonym ==
  /\ pc = "collect"
  /\ Len(value.ps) < MaxPseudonyms
  /\ \E kind \in {"Alias", "Export"}, new_name \in {"a", "b", "e", "x"},
        path \in {"a", "b", "x", "y"} :
       /\ kind = "Alias" =>
            new_name \in {"a", "b"} /\ Lookup(value.local_bindings, new_name) = 0
       /\ kind = "Export" => new_name \in {"e", "x"} /\ path \in {"a", "x"}
       /\ value' =
            [value EXCEPT
               !.ps = Append(@, Pseudonym(kind, new_name, path, Len(@) + 1)),
               !.local_bindings =
                 IF kind = "Alias"
                 THEN @ \cup {[name |-> new_name, key |-> 2 + Len(value.ps) + 1]}
                 ELSE @]
  /\ UNCHANGED <<buff, result, entity, pc, oom>>

PassDone ==
  /\ value.queue = <<>>
  /\ value.stack = <<>>
  /\ InState(value, "SoftFail") = {}

StartPass_again ==
  /\ \/ pc = "collect"
     \/ pc = "pass" /\ PassDone /\ (value.resolved > 0 \/ entity < 2)
  /\ InState(value, "Pending") # {}
  /\ value' = [value EXCEPT
                 !.queue = [i \in 1..Cardinality(InState(value, "Pending")) |->
                              CHOOSE p \in InState(value, "Pending") :
                                Cardinality({q \in InState(value, "Pending") : q < p}) = i - 1],
                 !.resolved = 0]
  /\ entity' = entity + 1
  /\ pc' = "pass"
  /\ UNCHANGED <<buff, result, oom>>

\* collect the Pending Pseudonyms into the work queue; a further pass is
\* started only after a pass that resolved something
StartPass ==
  /\ \/ pc = "collect"
     \/ pc = "pass" /\ PassDone /\ value.resolved > 0
  /\ InState(value, "Pending") # {}
  /\ value' = [value EXCEPT
                 !.queue = [i \in 1..Cardinality(InState(value, "Pending")) |->
                              CHOOSE p \in InState(value, "Pending") :
                                Cardinality({q \in InState(value, "Pending") : q < p}) = i - 1],
                 !.resolved = 0]
  /\ entity' = entity + 1
  /\ pc' = "pass"
  /\ UNCHANGED <<buff, result, oom>>

\* take the next Pseudonym of the queue and mark it in progress
BeginAttempt ==
  /\ pc = "pass"
  /\ value.stack = <<>>
  /\ InState(value, "SoftFail") = {}
  /\ value.queue # <<>>
  /\ value' = IF value.ps[Head(value.queue)].state = "Pending"
              THEN [value EXCEPT !.queue = Tail(@),
                                 !.stack = <<Head(value.queue)>>,
                                 !.ps = SetState(@, {Head(value.queue)}, "InProgress")]
              ELSE [value EXCEPT !.queue = Tail(@)]
  /\ UNCHANGED <<buff, result, entity, pc, oom>>

Top(ctx) == ctx.stack[Len(ctx.stack)]

\* the table a resolved Pseudonym is installed in, without its own placeholder
Destination(ctx, p) ==
  IF ctx.ps[p].kind = "Alias"
  THEN {b \in ctx.local_bindings : b.key # 2 + p}
  ELSE ctx.export_bindings

Install_overwrite(ctx, p, key) ==
  IF ctx.ps[p].kind = "Alias"
  THEN [ctx EXCEPT !.ps = SetState(@, {p}, "Resolved"),
                   !.local_bindings =
                     {b \in @ : b.name # ctx.ps[p].new_name} \cup
                       {[name |-> ctx.ps[p].new_name, key |-> key]},
                   !.stack = SubSeq(@, 1, Len(@) - 1),
                   !.resolved = @ + 1]
  ELSE [ctx EXCEPT !.ps = SetState(@, {p}, "Resolved"),
                   !.export_bindings =
                     {b \in @ : b.name # ctx.ps[p].new_name} \cup
                       {[name |-> ctx.ps[p].new_name, key |-> key]},
                   !.stack = SubSeq(@, 1, Len(@) - 1),
                   !.resolved = @ + 1]

\* install the binding of a resolved Pseudonym: an Alias in local_bindings,
\* an Export in export_bindings; a name already bound there is an error
Install(ctx, p, key) ==
  IF Lookup(Destination(ctx, p), ctx.ps[p].new_name) # 0
  THEN [HardFail(ctx, {p}) EXCEPT !.stack = SubSeq(ctx.stack, 1, Len(ctx.stack) - 1)]
  ELSE IF ctx.ps[p].kind = "Alias"
  THEN [ctx EXCEPT !.ps = SetState(@, {p}, "Resolved"),
                   !.local_bindings =
                     Destination(ctx, p) \cup
                       {[name |-> ctx.ps[p].new_name, key |-> key]},
                   !.stack = SubSeq(@, 1, Len(@) - 1),
                   !.resolved = @ + 1]
  ELSE [ctx EXCEPT !.ps = SetState(@, {p}, "Resolved"),
                   !.export_bindings =
                     @ \cup {[name |-> ctx.ps[p].new_name, key |-> key]},
                   !.stack = SubSeq(@, 1, Len(@) - 1),
                   !.resolved = @ + 1]

\* the part of the stack from Pseudonym q up to the top: the cycle q closes
RECURSIVE CycleFrom(_, _)
CycleFrom(stack, q) ==
  IF stack[1] = q THEN stack ELSE CycleFrom(Tail(stack), q)

\* the path of the top Pseudonym reached Pseudonym q, which is in progress:
\* the Pseudonyms of the cycle fail for good, those that led into it softly
Cycle(ctx, q) ==
  LET cycle == CycleFrom(ctx.stack, q)
      members == {cycle[i] : i \in 1..Len(cycle)}
      before == {ctx.stack[i] : i \in 1..Len(ctx.stack)} \ members
  IN  HardFail([ctx EXCEPT !.ps = SetState(@, before, "SoftFail")], members)

\* one step of the attempt on the Pseudonym on top of the stack: its path
\* is unbound, bound to an item, or bound to another Alias Pseudonym
Attempt ==
  /\ pc = "pass"
  /\ value.stack # <<>>
  /\ LET k == Lookup(value.local_bindings, value.ps[Top(value)].payload.path)
     IN  IF k = 0
         THEN /\ value' = [value EXCEPT
                             !.ps = SetState(@, {value.stack[i] : i \in 1..Len(value.stack)},
                                             "SoftFail"),
                             !.stack = <<>>]
              /\ buff' = buff
         ELSE IF k <= 2
         THEN /\ value' = Install(value, Top(value), k)
              /\ buff' = IF Install(value, Top(value), k).ps[Top(value)].state = "HardFail"
                         THEN buff \o Diagnostics(<<value.ps[Top(value)].origin>>, "shadow")
                         ELSE buff
         ELSE IF value.ps[k - 2].state = "InProgress"
         THEN /\ value' = Cycle(value, k - 2)
              /\ buff' = buff \o
                   Diagnostics([i \in 1..Cardinality(InState(Cycle(value, k - 2), "HardFail")
                                                       \ InState(value, "HardFail")) |->
                                  value.ps[CycleFrom(value.stack, k - 2)[i]].origin],
                               "cycle")
         ELSE /\ value' = [value EXCEPT !.ps = SetState(@, {k - 2}, "InProgress"),
                                        !.stack = Append(@, k - 2)]
              /\ buff' = buff
  /\ UNCHANGED <<result, entity, pc, oom>>

\* a soft failure puts the Pseudonym back among the pending ones
Requeue ==
  /\ pc = "pass"
  /\ InState(value, "SoftFail") # {}
  /\ value' = [value EXCEPT !.ps = SetState(@, InState(value, "SoftFail"), "Pending")]
  /\ UNCHANGED <<buff, result, entity, pc, oom>>

\* a full pass that resolved nothing
Stuck ==
  /\ pc = "pass"
  /\ PassDone
  /\ InState(value, "Pending") # {}
  /\ value.resolved = 0
  /\ pc' = "stuck"
  /\ UNCHANGED <<value, buff, result, entity, oom>>

StuckBegin ==
  /\ pc = "stuck"
  /\ value.stack = <<>>
  /\ \E p \in InState(value, "Pending") :
       /\ \A q \in InState(value, "Pending") : p <= q
       /\ value' = [value EXCEPT !.ps = SetState(@, {p}, "InProgress"),
                                 !.stack = <<p>>]
  /\ UNCHANGED <<buff, result, entity, pc, oom>>

StuckFail_silent ==
  /\ pc = "stuck"
  /\ value.stack # <<>>
  /\ value' = HardFail(value, {Top(value)})
  /\ UNCHANGED <<buff, result, entity, pc, oom>>

\* at a stuck pass an unresolved Pseudonym emits a diagnostic against its
\* origin and is removed
StuckFail ==
  /\ pc = "stuck"
  /\ value.stack # <<>>
  /\ value' = HardFail(value, {Top(value)})
  /\ buff' = buff \o Diagnostics(<<value.ps[Top(value)].origin>>, "unresolved")
  /\ UNCHANGED <<result, entity, pc, oom>>

\* the queue is empty and nothing is pending: the engine stops
Stop ==
  /\ pc \in {"collect", "pass", "stuck"}
  /\ PassDone
  /\ InState(value, "Pending") = {}
  /\ pc' = "stopped"
  /\ UNCHANGED <<value, buff, result, entity, oom>>

NextResolve ==
  \/ CollectPseudonym
  \/ StartPass
  \/ BeginAttempt
  \/ Attempt
  \/ Requeue
  \/ Stuck
  \/ StuckBegin
  \/ StuckFail
  \/ Stop

SpecResolve == InitResolve /\ [][NextResolve]_vars

SpecResolveFair == SpecResolve /\ WF_vars(NextResolve)

Unresolved(ctx) ==
  Cardinality({p \in 1..Len(ctx.ps) : ctx.ps[p].state \notin {"Resolved", "HardFail"}})

DiagnosticsAt(origin) == {i \in 1..Len(buff) : buff[i].origin = origin}

\* Alias p lies on a cycle of Aliases: its path names an Alias whose path
\* names p again, or p itself
InAliasCycle(ps, p) ==
  /\ ps[p].kind = "Alias"
  /\ \E q \in 1..Len(ps) :
       /\ ps[q].kind = "Alias"
       /\ ps[p].payload.path = ps[q].new_name
       /\ ps[q].payload.path = ps[p].new_name \/ q = p

\* C25: when Alias Pseudonyms form a cycle the resolution stops, an error
\* is emitted against the origin of each of them, and none of them is
\* installed as a binding of its destination namespace
C25_AliasCycle ==
  /\ [](pc = "stopped" =>
          \A p \in 1..Len(value.ps) :
            InAliasCycle(value.ps, p) =>
              /\ value.ps[p].state = "HardFail"
              /\ \E i \in DiagnosticsAt(value.ps[p].origin) : buff[i].kind = "Error"
              /\ Lookup(value.local_bindings, value.ps[p].new_name) = 0)
  /\ (pc = "pass" /\ \E p \in 1..Len(value.ps) : InAliasCycle(value.ps, p))
       ~> (pc = "stopped")

C25_Witness ==
  /\ pc = "stopped"
  /\ Len(value.ps) = 2
  /\ InAliasCycle(value.ps, 1)
  /\ value.ps[1].new_name # value.ps[2].new_name
  /\ InAliasCycle(value.ps, 2)
  /\ Len(buff) = 2

\* C26: a Pseudonym only moves Pending -> InProgress -> Resolved,
\* InProgress -> SoftFail -> Pending or InProgress -> HardFail; Resolved and
\* HardFail are never left, a move to HardFail comes with a diagnostic
\* against the Pseudonym, and when the engine stops no Pseudonym is Pending
\* or InProgress
C26_PseudonymStates ==
  [][/\ \A p \in 1..Len(value.ps) :
          /\ \/ value'.ps[p].state = value.ps[p].state
             \/ <<value.ps[p].state, value'.ps[p].state>> \in
                  {<<"Pending", "InProgress">>, <<"InProgress", "Resolved">>,
                   <<"InProgress", "SoftFail">>, <<"SoftFail", "Pending">>,
                   <<"InProgress", "HardFail">>}
          /\ (value'.ps[p].state = "HardFail" /\ value.ps[p].state # "HardFail") =>
               \E i \in (Len(buff) + 1)..Len(buff') :
                 buff'[i].origin = value.ps[p].origin
     /\ pc' = "stopped" =>
          \A p \in 1..Len(value'.ps) :
            value'.ps[p].state \in {"Resolved", "HardFail"}]_vars

C26_Witness ==
  /\ pc = "pass"
  /\ entity = 2
  /\ \E p \in 1..Len(value.ps) : value.ps[p].state = "SoftFail"
  /\ \E p \in 1..Len(value.ps) : value.ps[p].state = "Resolved"

====
